---- MODULE Spec2Model ----
(***************************************************************************)
(* Hikari TypeScript SDK: the pricing model, the provider wrappers, the   *)
(* span exporter, the provider patches and the instrumentor, configure()   *)
(* and shutdown(), and the async context, modelled as state machines.      *)
(*                                                                         *)
(* Money is counted in nano-USD (1e-9 USD), so that every bundled price    *)
(* per token is an integer; IEEE-754 rounding of the products and sums is  *)
(* not modelled.  A nullable value is a sequence of length at most one:    *)
(* Null is the empty sequence (null / undefined), Some(v) is <<v>>.        *)
(***************************************************************************)
EXTENDS Integers, Sequences, FiniteSets, TLC

VARIABLES
    table,        \* PricingModel.table: key "{provider}/{model}" -> ModelPricing
    costCall,     \* the last direct computeCost call: its arguments and its result
    pricingLog,   \* the overrides the PricingModel was built with, the last update of each key
    ctx,          \* the AsyncLocalStorage store of the current async context
    call,         \* the wrapped provider call: where it stands and what it was given
    span,         \* the span the wrapper started for the call
    outcome,      \* how the wrapped method settled for its caller
    faultModel,   \* which third-party steps may throw inside the wrapper
    maxQueueSize, \* HikariSpanExporter.maxQueueSize
    batchSize,    \* HikariSpanExporter.batchSize
    queue,        \* HikariSpanExporter.queue, oldest span first
    shutdown_flag, \* HikariSpanExporter.shutdown_flag
    flushTimer,   \* whether the setInterval flush timer is set
    batches,      \* every batch flushBatch extracted, in extraction order, and its send
    nextSpan,     \* the next span the tracer hands to export()
    lastExport,   \* the last export() call: what it was given and what it did
    pending,      \* BatchSpanProcessor: spans ended and not yet handed to export()
    sd,           \* the shutdown() call of index.ts: where it stands
    tracerProvider, \* index.ts tracerProvider: Null or the provider's number
    spanExporter, \* index.ts spanExporter: Null or the exporter's number
    instrumentor, \* index.ts instrumentor: Null or the instrumentor's number
    endpoint,     \* HikariSpanExporter.endpoint
    lastConfigure, \* the last configure() call: what it found and what it left
    modules,      \* what require() finds for each provider package
    method,       \* the function now installed in each provider's patched slot
    originals,    \* each provider module's originals map entry
    patchedProviders, \* HikariInstrumentor.patchedProviders
    lastInstrument, \* the last instrument() call: what it found and what it did
    stores,       \* the HikariContext objects AsyncLocalStorage holds
    storeOf,      \* the store of each async context: an index of stores, 0 for none
    lastSet,      \* the last setPipelineId()/setStage() call of an async context
    buffer_max_size, \* the collector's buffer capacity
    buffer,       \* the collector's write buffer, oldest record first
    overflow,     \* the write buffer's overflow counter
    handlers,     \* per ingest handler, the accepted records it has yet to enqueue
    writer,       \* the writer task: where it stands and the batch it drained
    rows,         \* the spans table, in insertion order
    db_connected, \* the writer's db_connected flag
    dbUp,         \* whether the database can be reached
    posts,        \* how many requests were ingested and how often each span was accepted
    race,         \* two enqueues in progress at once: what they started from
    lastQuery     \* the last response of a query endpoint

pvars == <<table, costCall, pricingLog>>
wvars == <<ctx, call, span, outcome, faultModel>>
evars == <<maxQueueSize, batchSize, queue, shutdown_flag, flushTimer, batches,
           nextSpan, lastExport>>
svars == <<pending, sd>>
kvars == <<tracerProvider, spanExporter, instrumentor, endpoint, lastConfigure>>
ivars == <<modules, method, originals, patchedProviders, lastInstrument>>
cvars == <<stores, storeOf, lastSet>>
dvars == <<buffer_max_size, buffer, overflow, handlers, writer, rows, db_connected,
           dbUp, posts, race, lastQuery>>
uvars == <<svars, kvars, ivars, cvars>>
xvars == <<uvars, dvars>>
vars == <<table, costCall, pricingLog, ctx, call, span, outcome, faultModel,
          maxQueueSize, batchSize, queue, shutdown_flag, flushTimer, batches,
          nextSpan, lastExport, pending, sd, tracerProvider, spanExporter,
          instrumentor, endpoint, lastConfigure, modules, method, originals,
          patchedProviders, lastInstrument, stores, storeOf, lastSet,
          buffer_max_size, buffer, overflow, handlers, writer, rows, db_connected,
          dbUp, posts, race, lastQuery>>

Null == <<>>
Some(v) == <<v>>

----------------------------------------------------------------------------
(* Bounds *)

MaxTokens == 2
MaxUpdates == 2
MaxQueue == 3
MaxBatch == 2
MaxSpans == 4
MaxPerExport == 3
MaxFailures == 3
MaxInstruments == 3
MaxConfigures == 2
MaxContexts == 3
MaxBuffer == 2
MaxPosts == 2
MaxRecords == 3
MaxWriteBatch == 2

OptTokens == {Null} \cup {Some(n) : n \in 0..MaxTokens}

----------------------------------------------------------------------------
(* pricing.ts *)

DEFAULT_PRICING ==
    ("openai/gpt-4o" :> [inputCostPerToken |-> 2500, outputCostPerToken |-> 10000]) @@
    ("openai/gpt-4o-mini" :> [inputCostPerToken |-> 150, outputCostPerToken |-> 600]) @@
    ("anthropic/claude-3-5-sonnet-20241022" :> [inputCostPerToken |-> 3000, outputCostPerToken |-> 15000]) @@
    ("anthropic/claude-3-haiku-20240307" :> [inputCostPerToken |-> 250, outputCostPerToken |-> 1250]) @@
    ("google/gemini-1.5-pro" :> [inputCostPerToken |-> 1250, outputCostPerToken |-> 5000]) @@
    ("google/gemini-1.5-flash" :> [inputCostPerToken |-> 75, outputCostPerToken |-> 300])

\* new PricingModel(overrides): the defaults are loaded first, then every
\* override replaces or adds its key.
PricingModel(overrides) == overrides @@ DEFAULT_PRICING

\* The constructor arguments tried: no overrides, and an override of a bundled
\* key together with a key that is not bundled.
Overrides ==
    { <<>>,
      ("openai/gpt-4o" :> [inputCostPerToken |-> 9900, outputCostPerToken |-> 19900]) @@
      ("custom/model-1" :> [inputCostPerToken |-> 500, outputCostPerToken |-> 700]) }

Providers == {"openai", "anthropic", "google"}
\* The providers named in direct calls of the pricing model: one with bundled
\* prices and one without.
PricingProviders == {"openai", "custom"}
ModelNames == {"gpt-4o", "model-1", "unknown"}
UpdateKeys == {"openai/gpt-4o", "custom/model-1"}
UpdatePrices == {<<0, 1000>>, <<1000, 2000>>}

get(t, provider, model) ==
    LET key == provider \o "/" \o model
    IN  IF key \in DOMAIN t THEN Some(t[key]) ELSE Null

\* A slip computeCost could have: the total is the sum of whatever is known.
computeCost_partialSum(t, provider, model, inputTokens, outputTokens) ==
    LET pricing == get(t, provider, model)
        inputCost == IF pricing # Null /\ inputTokens # Null
                     THEN Some(pricing[1].inputCostPerToken * inputTokens[1]) ELSE Null
        outputCost == IF pricing # Null /\ outputTokens # Null
                      THEN Some(pricing[1].outputCostPerToken * outputTokens[1]) ELSE Null
        totalCost == IF inputCost # Null /\ outputCost # Null
                     THEN Some(inputCost[1] + outputCost[1])
                     ELSE IF inputCost # Null THEN inputCost ELSE outputCost
    IN  [inputCost |-> inputCost, outputCost |-> outputCost, totalCost |-> totalCost]

\* A slip computeCost could have: `if (pricing && inputTokens)`, which takes a
\* token count of 0 for a missing one.
computeCost_truthy(t, provider, model, inputTokens, outputTokens) ==
    LET pricing == get(t, provider, model)
        inputCost == IF pricing # Null /\ inputTokens # Null /\ inputTokens # Some(0)
                     THEN Some(pricing[1].inputCostPerToken * inputTokens[1]) ELSE Null
        outputCost == IF pricing # Null /\ outputTokens # Null /\ outputTokens # Some(0)
                      THEN Some(pricing[1].outputCostPerToken * outputTokens[1]) ELSE Null
        totalCost == IF inputCost # Null /\ outputCost # Null
                     THEN Some(inputCost[1] + outputCost[1]) ELSE Null
    IN  [inputCost |-> inputCost, outputCost |-> outputCost, totalCost |-> totalCost]

computeCost(t, provider, model, inputTokens, outputTokens) ==
    LET pricing == get(t, provider, model)
        inputCost == IF pricing # Null /\ inputTokens # Null
                     THEN Some(pricing[1].inputCostPerToken * inputTokens[1]) ELSE Null
        outputCost == IF pricing # Null /\ outputTokens # Null
                      THEN Some(pricing[1].outputCostPerToken * outputTokens[1]) ELSE Null
        totalCost == IF inputCost # Null /\ outputCost # Null
                     THEN Some(inputCost[1] + outputCost[1]) ELSE Null
    IN  [inputCost |-> inputCost, outputCost |-> outputCost, totalCost |-> totalCost]

\* A slip update could have: the price is set only for a key the table lacks.
update_ifAbsent(t, modelKey, inputCostPerToken, outputCostPerToken) ==
    t @@ (modelKey :> [inputCostPerToken |-> inputCostPerToken,
                       outputCostPerToken |-> outputCostPerToken])

update(t, modelKey, inputCostPerToken, outputCostPerToken) ==
    (modelKey :> [inputCostPerToken |-> inputCostPerToken,
                  outputCostPerToken |-> outputCostPerToken]) @@ t

\* pricingLog of a PricingModel just built with the given overrides.
NoUpdates(overrides) == [overrides |-> overrides, latest |-> <<>>]

NoCostCall ==
    [made |-> FALSE, updates |-> 0, table |-> <<>>, provider |-> "", model |-> "",
     inputTokens |-> Null, outputTokens |-> Null,
     result |-> [inputCost |-> Null, outputCost |-> Null, totalCost |-> Null]]

\* pricing.update(modelKey, i, o)
Update(modelKey, i, o) ==
    /\ costCall.updates < MaxUpdates
    /\ table' = update(table, modelKey, i, o)
    /\ costCall' = [costCall EXCEPT !.updates = @ + 1]
    /\ pricingLog' = [pricingLog EXCEPT
                         !.latest = (modelKey :> [inputCostPerToken |-> i,
                                                  outputCostPerToken |-> o]) @@ @]
    /\ UNCHANGED <<xvars, wvars, evars>>

\* pricing.computeCost(provider, model, inputTokens, outputTokens); costCall keeps
\* the table the call ran against.
ComputeCost(provider, model, inputTokens, outputTokens) ==
    /\ costCall' = [made |-> TRUE, updates |-> costCall.updates, table |-> table,
                    provider |-> provider, model |-> model,
                    inputTokens |-> inputTokens, outputTokens |-> outputTokens,
                    result |-> computeCost(table, provider, model, inputTokens, outputTokens)]
    /\ UNCHANGED <<xvars, table, pricingLog, wvars, evars>>

----------------------------------------------------------------------------
(* providers/openai.ts, providers/anthropic.ts, providers/google.ts *)

PIPELINE_ID == "hikari.pipeline_id"
STAGE == "hikari.stage"
MODEL == "hikari.model"
PROVIDER == "hikari.provider"
TOKENS_INPUT == "hikari.tokens.input"
TOKENS_OUTPUT == "hikari.tokens.output"
COST_INPUT == "hikari.cost.input"
COST_OUTPUT == "hikari.cost.output"
COST_TOTAL == "hikari.cost.total"

AttrKeys == {PIPELINE_ID, STAGE, MODEL, PROVIDER, TOKENS_INPUT, TOKENS_OUTPUT,
             COST_INPUT, COST_OUTPUT, COST_TOTAL}

NoAttrs == [k \in AttrKeys |-> Null]

spanName(provider) ==
    CASE provider = "openai" -> "openai.chat.completions.create"
      [] provider = "anthropic" -> "anthropic.messages.create"
      [] provider = "google" -> "google.generativeai.generate_content"

\* What a provider call can resolve with: undefined (Null), or a response
\* whose model and usage may be missing and whose usage may lack either count.
\* prompt_tokens / completion_tokens stand for the provider's own field names
\* (input_tokens / output_tokens, promptTokenCount / candidatesTokenCount).
Usages == {Null} \cup
          {Some([prompt_tokens |-> a, completion_tokens |-> b]) : a \in OptTokens, b \in OptTokens}
ResponseModels == {Null, Some("gpt-4o"), Some("claude-3-haiku-20240307"), Some("model-1")}
Responses == {Null} \cup {Some([model |-> m, usage |-> u]) : m \in ResponseModels, u \in Usages}
KwModels == {Null, Some("gpt-4o"), Some("gemini-1.5-flash")}
Errors == {"API Error", "ETIMEDOUT"}
Stages == {"", "extract"}
PipelineIds == {"", "pipe-a"}

\* extractTokens(response), for a response that is an object
extractTokens(response) ==
    LET usage == response.usage
    IN  IF usage = Null THEN <<Null, Null>>
        ELSE <<usage[1].prompt_tokens, usage[1].completion_tokens>>

\* extractModel(response, kwargs); the Google wrapper uses the model name its
\* getGenerativeModel patch captured, passed here as kwModel.
extractModel(provider, response, kwModel) ==
    IF provider = "google"
    THEN (IF kwModel # Null THEN kwModel[1] ELSE "unknown")
    ELSE IF response.model # Null THEN response.model[1]
         ELSE IF kwModel # Null THEN kwModel[1] ELSE "unknown"

\* The steps of the wrapper's inner try block that call outside code and the
\* faults tried on them: with "otel" nothing the wrapper calls throws (the
\* OpenTelemetry API does not throw), with "any" token extraction, cost
\* computation or any one span.setAttribute may throw.
Faults(fm) ==
    IF fm = "any" THEN {"none", "extractTokens", "computeCost"} \cup AttrKeys ELSE {"none"}

\* span.setAttribute for each <<key, value>> of writes in order, stopping at
\* the one that throws.
RECURSIVE setAttributes(_, _, _)
setAttributes(attrs, writes, fault) ==
    IF writes = <<>> THEN [attrs |-> attrs, threw |-> FALSE]
    ELSE IF Head(writes)[1] = fault THEN [attrs |-> attrs, threw |-> TRUE]
    ELSE setAttributes([attrs EXCEPT ![Head(writes)[1]] = Some(Head(writes)[2])],
                       Tail(writes), fault)

Opt(key, value) == IF value # Null THEN << <<key, value[1]>> >> ELSE <<>>

\* A slip the wrapper could have: an unknown count or cost is written as 0.
costWrites_zero(cost) ==
    << <<COST_INPUT, IF cost.inputCost # Null THEN cost.inputCost[1] ELSE 0>>,
       <<COST_OUTPUT, IF cost.outputCost # Null THEN cost.outputCost[1] ELSE 0>> >>
    \o Opt(COST_TOTAL, cost.totalCost)

\* the three `if (xCost !== null) span.setAttribute(...)` of the wrapper
costWrites(cost) ==
    Opt(COST_INPUT, cost.inputCost) \o Opt(COST_OUTPUT, cost.outputCost)
    \o Opt(COST_TOTAL, cost.totalCost)

\* The inner try block of the wrapper, run when the provider call resolved:
\* the attributes the span ends up with, and whether the block threw into its
\* catch.  `response.usage` on an undefined response is a TypeError.
innerTry(t, provider, kwModel, stage, pipelineId, response, fault) ==
    IF response = Null \/ fault = "extractTokens"
    THEN [attrs |-> NoAttrs, threw |-> TRUE]
    ELSE
      LET tokens == extractTokens(response[1])
          model == extractModel(provider, response[1], kwModel)
          first == (IF pipelineId # Null /\ pipelineId # Some("")
                    THEN << <<PIPELINE_ID, pipelineId[1]>> >> ELSE <<>>)
                   \o << <<STAGE, stage>>, <<MODEL, model>>, <<PROVIDER, provider>> >>
                   \o Opt(TOKENS_INPUT, tokens[1]) \o Opt(TOKENS_OUTPUT, tokens[2])
          r1 == setAttributes(NoAttrs, first, fault)
      IN  IF r1.threw THEN r1
          ELSE IF fault = "computeCost" THEN [attrs |-> r1.attrs, threw |-> TRUE]
          ELSE setAttributes(r1.attrs,
                             costWrites(computeCost(t, provider, model, tokens[1], tokens[2])),
                             fault)

\* A slip the wrapper could have: no inner try/catch, so that an internal
\* error reaches the outer catch and is thrown to the caller.
onFulfilled_noInnerCatch(inner, response) ==
    IF inner.threw THEN [kind |-> "rejected", value |-> Some("hikari internal error")]
    ELSE [kind |-> "resolved", value |-> response]

\* `span.end(); return response;` after the inner try/catch
onFulfilled(inner, response) == [kind |-> "resolved", value |-> response]

\* A slip the wrapper could have: the provider's error is swallowed.
onRejected_swallow(err) == [kind |-> "resolved", value |-> Null]

\* the outer catch: `span.end(); throw err;`
onRejected(err) == [kind |-> "rejected", value |-> Some(err)]

\* context is the async context the wrapper's continuation runs in (0 when
\* the call is not followed through the async contexts), invoked what
\* getPipelineId() and getStage() returned to the caller at the call.
Idle == [pc |-> "idle", provider |-> "", kwModel |-> Null, stage |-> "",
         settled |-> "none", response |-> Null, err |-> "", fault |-> "none",
         internalError |-> FALSE, context |-> 0,
         invoked |-> [pipelineId |-> Null, stage |-> Null]]
NoSpan == [name |-> "", attrs |-> NoAttrs, ended |-> 0]
Pending == [kind |-> "pending", value |-> Null]

\* setStage(stage)
SetStage(stage) ==
    /\ ctx' = [ctx EXCEPT !.stage = Some(stage)]
    /\ UNCHANGED <<xvars, pvars, evars, call, span, outcome, faultModel>>

\* setPipelineId(pipelineId)
SetPipelineId(pipelineId) ==
    /\ ctx' = [ctx EXCEPT !.pipelineId = Some(pipelineId)]
    /\ UNCHANGED <<xvars, pvars, evars, call, span, outcome, faultModel>>

\* The wrapped method is called: it reads the stage, starts the span and calls
\* the original method, whose promise is awaited.
Invoke(provider, kwModel) ==
    /\ call.pc # "awaiting"
    /\ call' = [Idle EXCEPT !.pc = "awaiting", !.provider = provider, !.kwModel = kwModel,
                            !.stage = IF ctx.stage # Null THEN ctx.stage[1]
                                      ELSE spanName(provider)]
    /\ span' = [name |-> spanName(provider), attrs |-> NoAttrs, ended |-> 0]
    /\ outcome' = Pending
    /\ UNCHANGED <<xvars, pvars, evars, ctx, faultModel>>

\* The original method resolves with response: the inner try block runs, the
\* span is ended and the response returned.
ProviderResolves(response, fault) ==
    /\ call.pc = "awaiting"
    /\ fault \in Faults(faultModel)
    /\ LET inner == innerTry(table, call.provider, call.kwModel, call.stage,
                             ctx.pipelineId, response, fault)
       IN  /\ span' = [span EXCEPT !.attrs = inner.attrs, !.ended = @ + 1]
           /\ outcome' = onFulfilled(inner, response)
           /\ call' = [call EXCEPT !.pc = "done", !.settled = "resolved",
                                   !.response = response, !.fault = fault,
                                   !.internalError = inner.threw]
    /\ UNCHANGED <<xvars, pvars, evars, ctx, faultModel>>

\* The original method rejects with err: the span is ended and err rethrown.
ProviderRejects(err) ==
    /\ call.pc = "awaiting"
    /\ span' = [span EXCEPT !.ended = @ + 1]
    /\ outcome' = onRejected(err)
    /\ call' = [call EXCEPT !.pc = "done", !.settled = "rejected", !.err = err]
    /\ UNCHANGED <<xvars, pvars, evars, ctx, faultModel>>

----------------------------------------------------------------------------
(* exporter.ts *)

RETRY_DELAYS_MS == <<1000, 2000, 4000>>

Min(a, b) == IF a < b THEN a ELSE b

\* Array.prototype.shift: removes the first element, if there is one
shift(q) == IF q = <<>> THEN q ELSE Tail(q)

\* A slip export could have: a full queue refuses the new span.
RECURSIVE enqueue_dropNewest(_, _, _)
enqueue_dropNewest(q, spans, max) ==
    IF spans = <<>> THEN q
    ELSE enqueue_dropNewest(IF Len(q) >= max /\ q # <<>> THEN q ELSE Append(q, Head(spans)),
                            Tail(spans), max)

\* the for loop of export(): drop the oldest at capacity, then push
RECURSIVE enqueue(_, _, _)
enqueue(q, spans, max) ==
    IF spans = <<>> THEN q
    ELSE enqueue(Append(IF Len(q) >= max THEN shift(q) ELSE q, Head(spans)),
                 Tail(spans), max)

\* The OtlpPayload flushBatch builds for a batch: batch.map(spanToOtlp) as the
\* spans of one scopeSpans entry inside one resourceSpans entry.
OtlpPayload(batch) ==
    [resourceSpans |-> << [scopeSpans |-> << [spans |-> batch] >>] >>]

\* A batch whose first POST has just been issued.
NewSend(spans) == [spans |-> spans, payload |-> OtlpPayload(spans), attempt |-> 0,
                   phase |-> "fetch", posts |-> 1, waited |-> <<>>]

\* A slip flushBatch could have: it takes the whole queue.
flushBatch_all(q, bs, size) ==
    IF Len(q) = 0 THEN [queue |-> q, batches |-> bs, started |-> FALSE]
    ELSE [queue |-> <<>>, batches |-> Append(bs, NewSend(q)), started |-> TRUE]

\* A slip flushBatch could have: queue.splice(-batchSize), which takes the
\* newest spans and leaves the oldest in the queue.
flushBatch_newest(q, bs, size) ==
    IF Len(q) = 0 THEN [queue |-> q, batches |-> bs, started |-> FALSE]
    ELSE LET n == Min(IF size < 0 THEN 0 ELSE size, Len(q))
             batch == SubSeq(q, Len(q) - n + 1, Len(q))
         IN  IF Len(batch) = 0 THEN [queue |-> q, batches |-> bs, started |-> FALSE]
             ELSE [queue |-> SubSeq(q, 1, Len(q) - n),
                   batches |-> Append(bs, NewSend(batch)),
                   started |-> TRUE]

\* A slip flushBatch could have: queue.slice(0, batchSize), which copies the
\* spans and leaves them in the queue.
flushBatch_slice(q, bs, size) ==
    IF Len(q) = 0 THEN [queue |-> q, batches |-> bs, started |-> FALSE]
    ELSE LET n == Min(IF size < 0 THEN 0 ELSE size, Len(q))
             batch == SubSeq(q, 1, n)
         IN  IF Len(batch) = 0 THEN [queue |-> q, batches |-> bs, started |-> FALSE]
             ELSE [queue |-> q, batches |-> Append(bs, NewSend(batch)), started |-> TRUE]

\* flushBatch() up to its first await: queue.splice(0, batchSize), the payload
\* and the first fetch of sendWithRetry all run synchronously in the caller.
flushBatch(q, bs, size) ==
    IF Len(q) = 0 THEN [queue |-> q, batches |-> bs, started |-> FALSE]
    ELSE LET n == Min(IF size < 0 THEN 0 ELSE size, Len(q))
             batch == SubSeq(q, 1, n)
         IN  IF Len(batch) = 0 THEN [queue |-> q, batches |-> bs, started |-> FALSE]
             ELSE [queue |-> SubSeq(q, n + 1, Len(q)),
                   batches |-> Append(bs, NewSend(batch)),
                   started |-> TRUE]

\* A slip export could have: the shut-down path returns without the callback.
export_noCallbackWhenShutDown(q, bs, spans, max, size, shut) ==
    IF shut
    THEN [queue |-> q, batches |-> bs, enq |-> q, flushed |-> FALSE,
          cb |-> <<>>, threw |-> FALSE]
    ELSE LET enq == enqueue(q, spans, max)
             f == IF Len(enq) >= size THEN flushBatch(enq, bs, size)
                  ELSE [queue |-> enq, batches |-> bs, started |-> FALSE]
         IN  [queue |-> f.queue, batches |-> f.batches, enq |-> enq,
              flushed |-> f.started, cb |-> <<"SUCCESS">>, threw |-> FALSE]

\* A slip export could have: it flushes only once the queue exceeds batchSize.
export_flushWhenExceeded(q, bs, spans, max, size, shut) ==
    IF shut
    THEN [queue |-> q, batches |-> bs, enq |-> q, flushed |-> FALSE,
          cb |-> <<"SUCCESS">>, threw |-> FALSE]
    ELSE LET enq == enqueue(q, spans, max)
             f == IF Len(enq) > size THEN flushBatch(enq, bs, size)
                  ELSE [queue |-> enq, batches |-> bs, started |-> FALSE]
         IN  [queue |-> f.queue, batches |-> f.batches, enq |-> enq,
              flushed |-> f.started, cb |-> <<"SUCCESS">>, threw |-> FALSE]

\* export(spans, resultCallback): the queue and batches it leaves, the queue as
\* it stood after the enqueue loop (enq), whether it started a flush, the
\* results handed to resultCallback in order, and whether it threw.  The
\* promise of flushBatch is not awaited and its rejection is caught.
export(q, bs, spans, max, size, shut) ==
    IF shut
    THEN [queue |-> q, batches |-> bs, enq |-> q, flushed |-> FALSE,
          cb |-> <<"SUCCESS">>, threw |-> FALSE]
    ELSE LET enq == enqueue(q, spans, max)
             f == IF Len(enq) >= size THEN flushBatch(enq, bs, size)
                  ELSE [queue |-> enq, batches |-> bs, started |-> FALSE]
         IN  [queue |-> f.queue, batches |-> f.batches, enq |-> enq,
              flushed |-> f.started, cb |-> <<"SUCCESS">>, threw |-> FALSE]

\* sendWithRetry after a fetch that failed (network error or non-2xx): wait
\* for RETRY_DELAYS_MS[attempt] unless this was the last attempt, after which
\* the batch is dropped with a warning.
fetchFailed(b) ==
    IF b.attempt < Len(RETRY_DELAYS_MS) - 1
    THEN [b EXCEPT !.phase = "backoff"]
    ELSE [b EXCEPT !.phase = "dropped"]

\* sendWithRetry when the backoff timer fires: the next attempt's fetch
retry(b) ==
    [b EXCEPT !.waited = Append(@, RETRY_DELAYS_MS[b.attempt + 1]),
              !.attempt = @ + 1, !.phase = "fetch", !.posts = @ + 1]

NoExport == [made |-> FALSE, shut |-> FALSE, before |-> <<>>, spans |-> <<>>,
             enq |-> <<>>, after |-> <<>>, flushed |-> FALSE, batch |-> 0,
             cb |-> <<>>, threw |-> FALSE]

\* The tracer's span processor calls export() with the next k ended spans.
Export(k) ==
    /\ nextSpan + k - 1 <= MaxSpans
    /\ LET spans == [i \in 1..k |-> nextSpan + i - 1]
           r == export(queue, batches, spans, maxQueueSize, batchSize, shutdown_flag)
       IN  /\ queue' = r.queue
           /\ batches' = r.batches
           /\ lastExport' = [made |-> TRUE, shut |-> shutdown_flag, before |-> queue,
                             spans |-> spans, enq |-> r.enq, after |-> r.queue,
                             flushed |-> r.flushed,
                             batch |-> IF r.flushed THEN Len(r.batches) ELSE 0,
                             cb |-> r.cb, threw |-> r.threw]
    /\ nextSpan' = nextSpan + k
    /\ UNCHANGED <<xvars, pvars, wvars, maxQueueSize, batchSize, shutdown_flag, flushTimer>>

\* The setInterval callback of startFlushTimer.
TimerFlush ==
    /\ flushTimer
    /\ LET f == flushBatch(queue, batches, batchSize)
       IN  queue' = f.queue /\ batches' = f.batches
    /\ UNCHANGED <<xvars, pvars, wvars, maxQueueSize, batchSize, shutdown_flag, flushTimer,
                   nextSpan, lastExport>>

\* forceFlush()
ForceFlush ==
    /\ LET f == flushBatch(queue, batches, batchSize)
       IN  queue' = f.queue /\ batches' = f.batches
    /\ UNCHANGED <<xvars, pvars, wvars, maxQueueSize, batchSize, shutdown_flag, flushTimer,
                   nextSpan, lastExport>>

\* shutdown(): sets the flag, clears the timer and calls flushBatch once.
Shutdown ==
    /\ shutdown_flag' = TRUE
    /\ flushTimer' = FALSE
    /\ LET f == flushBatch(queue, batches, batchSize)
       IN  queue' = f.queue /\ batches' = f.batches
    /\ UNCHANGED <<xvars, pvars, wvars, maxQueueSize, batchSize, nextSpan, lastExport>>

\* The collector answers a POST with 2xx.
FetchOk(i) ==
    /\ i \in 1..Len(batches)
    /\ batches[i].phase = "fetch"
    /\ batches' = [batches EXCEPT ![i].phase = "sent"]
    /\ UNCHANGED <<xvars, pvars, wvars, maxQueueSize, batchSize, queue, shutdown_flag,
                   flushTimer, nextSpan, lastExport>>

\* The POSTs that have failed so far.
RECURSIVE Failures(_)
Failures(bs) ==
    IF bs = <<>> THEN 0
    ELSE Failures(Tail(bs)) + Head(bs).attempt
         + (IF Head(bs).phase \in {"backoff", "dropped"} THEN 1 ELSE 0)

\* A POST fails: fetch rejects or the collector answers non-2xx.
FetchFails(i) ==
    /\ i \in 1..Len(batches)
    /\ Failures(batches) < MaxFailures
    /\ batches[i].phase = "fetch"
    /\ batches' = [batches EXCEPT ![i] = fetchFailed(@)]
    /\ UNCHANGED <<xvars, pvars, wvars, maxQueueSize, batchSize, queue, shutdown_flag,
                   flushTimer, nextSpan, lastExport>>

\* The backoff delay of a batch has passed.
BackoffElapses(i) ==
    /\ i \in 1..Len(batches)
    /\ batches[i].phase = "backoff"
    /\ batches' = [batches EXCEPT ![i] = retry(@)]
    /\ UNCHANGED <<xvars, pvars, wvars, maxQueueSize, batchSize, queue, shutdown_flag,
                   flushTimer, nextSpan, lastExport>>

----------------------------------------------------------------------------
(* exporter.ts, spanToOtlp *)

NanoPerUsd == 1000000000

Digits == <<"0", "1", "2", "3", "4", "5", "6", "7", "8", "9">>

\* String(value) of a non-negative integer: its decimal digits
RECURSIVE String(_)
String(n) == IF n < 10 THEN Digits[n + 1] ELSE String(n \div 10) \o Digits[(n % 10) + 1]

NumberKeys == {TOKENS_INPUT, TOKENS_OUTPUT, COST_INPUT, COST_OUTPUT, COST_TOTAL}
CostKeys == {COST_INPUT, COST_OUTPUT, COST_TOTAL}
TokenKeys == {TOKENS_INPUT, TOKENS_OUTPUT}

\* Number.isInteger of the JavaScript number an attribute holds: a token
\* count is held as it is, a cost is held in USD and modelled in nano-USD.
isInteger(key, v) == IF key \in CostKeys THEN v % NanoPerUsd = 0 ELSE TRUE

\* The integer that JavaScript number is, when it is one.
integerOf(key, v) == IF key \in CostKeys THEN v \div NanoPerUsd ELSE v

\* The value object spanToOtlp writes for one attribute: a string becomes a
\* stringValue, an integer number an intValue holding String(value), any
\* other number a doubleValue.
otlpValue(key, v) ==
    IF key \in NumberKeys
    THEN IF isInteger(key, v)
         THEN [type |-> "intValue", text |-> String(integerOf(key, v)), nano |-> 0]
         ELSE [type |-> "doubleValue", text |-> "", nano |-> v]
    ELSE [type |-> "stringValue", text |-> v, nano |-> 0]

\* spanToOtlp(span).attributes: one entry for each attribute the span has
spanToOtlp(attrs) ==
    [k \in {a \in AttrKeys : attrs[a] # Null} |-> otlpValue(k, attrs[k][1])]

----------------------------------------------------------------------------
(* providers/openai.ts, providers/anthropic.ts, providers/google.ts,       *)
(* instrumentor.ts                                                         *)

\* A function value is the sequence of layers put around a provider's own
\* method, innermost first: "bind" for Function.prototype.bind, "wrap" for
\* the tracing wrapper.  Original is the provider's own method.
Original == <<>>
bind(f) == Append(f, "bind")
makeWrapper(original) == Append(original, "wrap")

\* The Hikari spans one call through f emits: one for each tracing wrapper.
RECURSIVE spansPerCall(_)
spansPerCall(f) ==
    IF f = <<>> THEN 0
    ELSE spansPerCall(Tail(f)) + (IF Head(f) = "wrap" THEN 1 ELSE 0)

\* MIN_VERSION of each provider module, as <<major, minor>>
MIN_VERSION(provider) ==
    CASE provider = "openai" -> <<4, 0>>
      [] provider = "anthropic" -> <<0, 18>>
      [] provider = "google" -> <<0, 3>>

\* The version check of patch(): openai compares the major number only,
\* anthropic and google compare major and minor.
belowMinimum(provider, version) ==
    IF provider = "openai" THEN version[1] < 4
    ELSE \/ version[1] < MIN_VERSION(provider)[1]
         \/ version[1] = MIN_VERSION(provider)[1] /\ version[2] < MIN_VERSION(provider)[2]

\* What require() and the prototype lookups find for a provider package:
\* whether it is installed, its VERSION, whether the object holding the
\* method is there (proto.chat.completions, proto.messages, the
\* GoogleGenerativeAI class) and whether the method itself is there.
NotInstalled == [installed |-> FALSE, version |-> <<0, 0>>, holder |-> FALSE,
                 hasMethod |-> FALSE]
Installed(version, holder, hasMethod) ==
    [installed |-> TRUE, version |-> version, holder |-> holder, hasMethod |-> hasMethod]
OldVersion(provider) ==
    CASE provider = "openai" -> <<3, 28>>
      [] provider = "anthropic" -> <<0, 17>>
      [] provider = "google" -> <<0, 2>>
NewVersion(provider) ==
    CASE provider = "openai" -> <<4, 52>>
      [] provider = "anthropic" -> <<1, 2>>
      [] provider = "google" -> <<0, 21>>
ModuleStates(provider) ==
    {NotInstalled,
     Installed(OldVersion(provider), TRUE, TRUE),
     Installed(MIN_VERSION(provider), TRUE, TRUE),
     Installed(NewVersion(provider), TRUE, TRUE),
     Installed(NewVersion(provider), FALSE, FALSE),
     Installed(NewVersion(provider), TRUE, FALSE)}

\* A slip patch could have: the wrapper is installed before the checks.
patch_installFirst(provider, mod, m, o) ==
    LET original == IF provider = "google" THEN m ELSE bind(m)
    IN  IF mod.installed /\ mod.holder /\ mod.hasMethod
           /\ ~belowMinimum(provider, mod.version)
        THEN [ok |-> TRUE, method |-> makeWrapper(original),
              originals |-> Some(original), threw |-> FALSE]
        ELSE [ok |-> FALSE, method |-> makeWrapper(original),
              originals |-> Some(original), threw |-> FALSE]

\* patch(pricing) of a provider module, given the function m now in the
\* patched slot and the originals entry o: whether it returned true, the
\* function and the entry it leaves, and whether it threw.  require() of a
\* missing package and create.bind on a missing method throw inside the try
\* block, whose catch returns false.  openai and anthropic save and wrap
\* create.bind(holder); google saves and wraps getGenerativeModel itself.
patch(provider, mod, m, o) ==
    IF ~mod.installed THEN [ok |-> FALSE, method |-> m, originals |-> o, threw |-> FALSE]
    ELSE IF belowMinimum(provider, mod.version)
    THEN [ok |-> FALSE, method |-> m, originals |-> o, threw |-> FALSE]
    ELSE IF ~mod.holder THEN [ok |-> FALSE, method |-> m, originals |-> o, threw |-> FALSE]
    ELSE IF ~mod.hasMethod THEN [ok |-> FALSE, method |-> m, originals |-> o, threw |-> FALSE]
    ELSE LET original == IF provider = "google" THEN m ELSE bind(m)
         IN  [ok |-> TRUE, method |-> makeWrapper(original),
              originals |-> Some(original), threw |-> FALSE]

\* A slip unpatch could have: the originals entry is deleted but the wrapper
\* stays in the slot.
unpatch_keepWrapper(provider, mod, m, o) ==
    IF mod.installed /\ mod.holder /\ o # Null
    THEN [method |-> m, originals |-> Null]
    ELSE [method |-> m, originals |-> o]

\* unpatch() of a provider module: the saved function goes back into the
\* slot and the originals entry is deleted.
unpatch(provider, mod, m, o) ==
    IF mod.installed /\ mod.holder /\ o # Null
    THEN [method |-> o[1], originals |-> Null]
    ELSE [method |-> m, originals |-> o]

ProviderOrder == <<"openai", "anthropic", "google">>

\* A slip instrument could have: the list is not reset before the pushes.
instrument_noReset(pp, mods, m, o) ==
    LET r == [p \in Providers |-> patch(p, mods[p], m[p], o[p])]
        push(l, p) == IF r[p].ok THEN Append(l, p) ELSE l
    IN  [patchedProviders |-> push(push(push(pp, "openai"), "anthropic"), "google"),
         method |-> [p \in Providers |-> r[p].method],
         originals |-> [p \in Providers |-> r[p].originals],
         ok |-> [p \in Providers |-> r[p].ok],
         threw |-> \E p \in Providers : r[p].threw]

\* HikariInstrumentor.instrument(pricing): the list is reset, the three
\* modules are patched in the order openai, anthropic, google, and each one
\* whose patch() returned true is pushed.  Each module has its own slot and
\* its own originals map, so the three patches do not interfere.
instrument(pp, mods, m, o) ==
    LET r == [p \in Providers |-> patch(p, mods[p], m[p], o[p])]
        push(l, p) == IF r[p].ok THEN Append(l, p) ELSE l
    IN  [patchedProviders |-> push(push(push(<<>>, "openai"), "anthropic"), "google"),
         method |-> [p \in Providers |-> r[p].method],
         originals |-> [p \in Providers |-> r[p].originals],
         ok |-> [p \in Providers |-> r[p].ok],
         threw |-> \E p \in Providers : r[p].threw]

\* Array.prototype.includes
includes(l, x) == \E i \in 1..Len(l) : l[i] = x

\* A slip uninstrument could have: the list is not consulted and whatever
\* originals.get() returns, undefined included, is written into the slot.
uninstrument_blind(pp, mods, m, o) ==
    LET r == [p \in Providers |->
                 IF mods[p].installed /\ mods[p].holder
                 THEN [method |-> IF o[p] # Null THEN o[p][1] ELSE <<"undefined">>,
                       originals |-> Null]
                 ELSE [method |-> m[p], originals |-> o[p]]]
    IN  [patchedProviders |-> <<>>,
         method |-> [p \in Providers |-> r[p].method],
         originals |-> [p \in Providers |-> r[p].originals],
         threw |-> FALSE]

\* HikariInstrumentor.uninstrument(): the modules in the list are unpatched
\* and the list is emptied.  Nothing in it throws: unpatch() has its own
\* try block.
uninstrument(pp, mods, m, o) ==
    LET r == [p \in Providers |->
                 IF includes(pp, p) THEN unpatch(p, mods[p], m[p], o[p])
                 ELSE [method |-> m[p], originals |-> o[p]]]
    IN  [patchedProviders |-> <<>>,
         method |-> [p \in Providers |-> r[p].method],
         originals |-> [p \in Providers |-> r[p].originals],
         threw |-> FALSE]

\* HikariInstrumentor.getPatchedProviders(): a copy of the list
getPatchedProviders(pp) == [i \in 1..Len(pp) |-> pp[i]]

\* lastInstrument before any call.  trail follows the calls made so far:
\* "instrumented" after one instrument(), "roundtrip" after uninstrument()
\* calls following it, "reinstrumented" after one more instrument(); first
\* is the list the first instrument() returned; repeat says that the last
\* uninstrument() had no instrument() since the one before it, or none at
\* all before it.
NoInstrument == [calls |-> 0, returned |-> <<>>, first |-> <<>>,
                 ok |-> [p \in Providers |-> FALSE], threw |-> FALSE,
                 trail |-> "fresh", uninstrumented |-> FALSE, repeat |-> FALSE]

\* instrumentor.instrument(pricing) on a HikariInstrumentor
Instrument ==
    /\ lastInstrument.calls < MaxInstruments
    /\ LET r == instrument(patchedProviders, modules, method, originals)
       IN  /\ method' = r.method
           /\ originals' = r.originals
           /\ patchedProviders' = r.patchedProviders
           /\ lastInstrument' =
                 [calls |-> lastInstrument.calls + 1, returned |-> r.patchedProviders,
                  first |-> IF lastInstrument.calls = 0 THEN r.patchedProviders
                            ELSE lastInstrument.first,
                  ok |-> r.ok, threw |-> r.threw,
                  trail |-> IF lastInstrument.trail = "fresh" THEN "instrumented"
                            ELSE IF lastInstrument.trail = "roundtrip"
                            THEN "reinstrumented" ELSE "other",
                  uninstrumented |-> FALSE, repeat |-> FALSE]
    /\ UNCHANGED <<dvars, svars, kvars, cvars, pvars, wvars, evars, modules>>

\* instrumentor.uninstrument()
Uninstrument ==
    /\ LET r == uninstrument(patchedProviders, modules, method, originals)
       IN  /\ method' = r.method
           /\ originals' = r.originals
           /\ patchedProviders' = r.patchedProviders
           /\ lastInstrument' =
                 [lastInstrument EXCEPT
                     !.trail = IF @ = "instrumented" THEN "roundtrip"
                               ELSE IF @ \in {"fresh", "roundtrip"} THEN @ ELSE "other",
                     !.threw = r.threw,
                     !.repeat = lastInstrument.uninstrumented \/ lastInstrument.calls = 0,
                     !.uninstrumented = TRUE]
    /\ UNCHANGED <<dvars, svars, kvars, cvars, pvars, wvars, evars, modules>>

----------------------------------------------------------------------------
(* index.ts *)

\* The HikariConfig objects tried: every option left out but the smallest
\* batch size, and every option given, the endpoint with a trailing slash.
Configs ==
    {[collectorEndpoint |-> Null, batchSize |-> 1, maxQueueSize |-> MaxQueue,
      pricing |-> <<>>],
     [collectorEndpoint |-> Some([base |-> "http://collector:8000", slash |-> TRUE]),
      batchSize |-> MaxBatch, maxQueueSize |-> MaxQueue - 1,
      pricing |-> ("openai/gpt-4o" :> [inputCostPerToken |-> 9900,
                                       outputCostPerToken |-> 19900])]}

\* The endpoint the exporter's constructor keeps: the default when absent,
\* and a trailing slash removed.
endpointOf(e) == IF e = Null THEN "http://localhost:8000" ELSE e[1].base

\* A slip configure could have: it looks at instrumentor, which shutdown()
\* clears first, instead of tracerProvider, which it clears last.
configure_checksInstrumentor(tp, ex, ins, cfg) ==
    IF ins # Null THEN [create |-> FALSE, warned |-> TRUE]
    ELSE [create |-> TRUE, warned |-> FALSE]

\* configure(config), its guard: a configured SDK warns and returns
configure(tp, ex, ins, cfg) ==
    IF tp # Null THEN [create |-> FALSE, warned |-> TRUE]
    ELSE [create |-> TRUE, warned |-> FALSE]

NoConfigure == [created |-> 0, warned |-> FALSE, config |-> Null]
NoShutdown == [pc |-> "idle", batch |-> 0, ended |-> <<>>]

\* configure(config): unless ignored, a new PricingModel, a new
\* HikariSpanExporter, a new NodeTracerProvider with a BatchSpanProcessor,
\* and a new HikariInstrumentor whose instrument() is called.
Configure(cfg) ==
    LET c == configure(tracerProvider, spanExporter, instrumentor, cfg)
        n == lastConfigure.created + 1
        r == instrument(<<>>, modules, method, originals)
    IN  IF ~c.create
        THEN /\ lastConfigure' = [lastConfigure EXCEPT !.warned = c.warned,
                                                       !.config = Some(cfg)]
             /\ UNCHANGED <<dvars, svars, ivars, cvars, pvars, wvars, evars, tracerProvider,
                            spanExporter, instrumentor, endpoint>>
        ELSE /\ n <= MaxConfigures
             /\ table' = PricingModel(cfg.pricing)
             /\ pricingLog' = NoUpdates(cfg.pricing)
             /\ endpoint' = endpointOf(cfg.collectorEndpoint)
             /\ maxQueueSize' = cfg.maxQueueSize
             /\ batchSize' = cfg.batchSize
             /\ queue' = <<>>
             /\ shutdown_flag' = FALSE
             /\ flushTimer' = TRUE
             /\ lastExport' = NoExport
             /\ spanExporter' = Some(n)
             /\ tracerProvider' = Some(n)
             /\ pending' = <<>>
             /\ sd' = NoShutdown
             /\ instrumentor' = Some(n)
             /\ method' = r.method
             /\ originals' = r.originals
             /\ patchedProviders' = r.patchedProviders
             /\ lastInstrument' =
                   [calls |-> lastInstrument.calls + 1, returned |-> r.patchedProviders,
                    first |-> IF lastInstrument.calls = 0 THEN r.patchedProviders
                              ELSE lastInstrument.first,
                    ok |-> r.ok, threw |-> r.threw,
                    trail |-> IF lastInstrument.trail = "fresh" THEN "instrumented"
                              ELSE IF lastInstrument.trail = "roundtrip"
                              THEN "reinstrumented" ELSE "other",
                    uninstrumented |-> FALSE, repeat |-> FALSE]
             /\ lastConfigure' = [created |-> n, warned |-> c.warned, config |-> Some(cfg)]
             /\ UNCHANGED <<dvars, cvars, wvars, costCall, batches, nextSpan, modules>>

\* A wrapper ends a span: the BatchSpanProcessor of the registered tracer
\* provider buffers it.
SpanEnds ==
    /\ tracerProvider # Null
    /\ sd.pc = "idle"
    /\ nextSpan <= MaxSpans
    /\ pending' = Append(pending, nextSpan)
    /\ nextSpan' = nextSpan + 1
    /\ UNCHANGED <<dvars, kvars, ivars, cvars, pvars, wvars, sd, maxQueueSize, batchSize, queue,
                   shutdown_flag, flushTimer, batches, lastExport>>

\* The BatchSpanProcessor hands its buffered spans to export().
ProcessorExport ==
    /\ tracerProvider # Null
    /\ sd.pc = "idle"
    /\ pending # <<>>
    /\ LET r == export(queue, batches, pending, maxQueueSize, batchSize, shutdown_flag)
       IN  /\ queue' = r.queue
           /\ batches' = r.batches
           /\ lastExport' = [made |-> TRUE, shut |-> shutdown_flag, before |-> queue,
                             spans |-> pending, enq |-> r.enq, after |-> r.queue,
                             flushed |-> r.flushed,
                             batch |-> IF r.flushed THEN Len(r.batches) ELSE 0,
                             cb |-> r.cb, threw |-> r.threw]
    /\ pending' = <<>>
    /\ UNCHANGED <<dvars, kvars, ivars, cvars, pvars, wvars, sd, maxQueueSize, batchSize,
                   shutdown_flag, flushTimer, nextSpan>>

\* The send that flushBatch awaits has settled: POSTed with 2xx, or dropped.
Settled(bs, i) == IF i = 0 THEN TRUE ELSE bs[i].phase \in {"sent", "dropped"}

\* shutdown() up to its first await: instrumentor.uninstrument(), then
\* spanExporter.shutdown() sets the flag, clears the timer and starts one
\* flushBatch, which it awaits.
ShutdownCall ==
    /\ tracerProvider # Null
    /\ sd.pc = "idle"
    /\ LET u == IF instrumentor # Null
                THEN uninstrument(patchedProviders, modules, method, originals)
                ELSE [patchedProviders |-> patchedProviders, method |-> method,
                      originals |-> originals]
           f == flushBatch(queue, batches, batchSize)
       IN  /\ method' = u.method
           /\ originals' = u.originals
           /\ patchedProviders' = u.patchedProviders
           /\ queue' = f.queue
           /\ batches' = f.batches
           /\ sd' = [pc |-> "exporter",
                     batch |-> IF f.started THEN Len(f.batches) ELSE 0,
                     ended |-> pending \o queue]
    /\ lastInstrument' =
          [lastInstrument EXCEPT
              !.trail = IF @ = "instrumented" THEN "roundtrip"
                        ELSE IF @ \in {"fresh", "roundtrip"} THEN @ ELSE "other",
              !.uninstrumented = TRUE]
    /\ instrumentor' = Null
    /\ shutdown_flag' = TRUE
    /\ flushTimer' = FALSE
    /\ UNCHANGED <<dvars, cvars, pvars, wvars, pending, tracerProvider, spanExporter, endpoint,
                   lastConfigure, modules, maxQueueSize, batchSize, nextSpan, lastExport>>

\* spanExporter.shutdown() resolves; tracerProvider.shutdown() runs up to its
\* await: the BatchSpanProcessor hands its buffered spans to export() and
\* calls the exporter's shutdown(), which starts one more flushBatch.
ExporterShutdownResolves ==
    /\ sd.pc = "exporter"
    /\ Settled(batches, sd.batch)
    /\ spanExporter' = Null
    /\ LET r == export(queue, batches, pending, maxQueueSize, batchSize, shutdown_flag)
           f == flushBatch(r.queue, r.batches, batchSize)
       IN  /\ queue' = f.queue
           /\ batches' = f.batches
           /\ lastExport' = IF pending = <<>> THEN lastExport
                            ELSE [made |-> TRUE, shut |-> shutdown_flag, before |-> queue,
                                  spans |-> pending, enq |-> r.enq, after |-> r.queue,
                                  flushed |-> r.flushed,
                                  batch |-> IF r.flushed THEN Len(r.batches) ELSE 0,
                                  cb |-> r.cb, threw |-> r.threw]
           /\ sd' = [sd EXCEPT !.pc = "provider",
                               !.batch = IF f.started THEN Len(f.batches) ELSE 0]
    /\ pending' = <<>>
    /\ UNCHANGED <<dvars, ivars, cvars, pvars, wvars, tracerProvider, instrumentor, endpoint,
                   lastConfigure, maxQueueSize, batchSize, shutdown_flag, flushTimer,
                   nextSpan>>

\* tracerProvider.shutdown() resolves, and with it shutdown().
ShutdownResolves ==
    /\ sd.pc = "provider"
    /\ Settled(batches, sd.batch)
    /\ tracerProvider' = Null
    /\ sd' = [sd EXCEPT !.pc = "resolved"]
    /\ UNCHANGED <<dvars, ivars, cvars, pvars, wvars, evars, pending, spanExporter, instrumentor,
                   endpoint, lastConfigure>>

----------------------------------------------------------------------------
(* context.ts *)

\* The ids and stage names the async contexts set.
ContextValues == {"a", "b"}

\* storage.getStore() in async context c: Null for undefined
getStore(ss, so, c) == IF so[c] = 0 THEN Null ELSE Some(ss[so[c]])

\* getPipelineId() in async context c
getPipelineId(ss, so, c) ==
    IF getStore(ss, so, c) = Null THEN Null ELSE getStore(ss, so, c)[1].pipelineId

\* getStage() in async context c
getStage(ss, so, c) ==
    IF getStore(ss, so, c) = Null THEN Null ELSE getStore(ss, so, c)[1].stage

\* setPipelineId(pipelineId) in async context c: the store object c has is
\* written in place; without one, enterWith gives c a new object.
setContextPipelineId(ss, so, c, pipelineId) ==
    IF so[c] # 0
    THEN [stores |-> [ss EXCEPT ![so[c]].pipelineId = Some(pipelineId)], storeOf |-> so]
    ELSE [stores |-> Append(ss, [pipelineId |-> Some(pipelineId), stage |-> Null]),
          storeOf |-> [so EXCEPT ![c] = Len(ss) + 1]]

\* setStage(stage) in async context c
setContextStage(ss, so, c, stage) ==
    IF so[c] # 0
    THEN [stores |-> [ss EXCEPT ![so[c]].stage = Some(stage)], storeOf |-> so]
    ELSE [stores |-> Append(ss, [pipelineId |-> Null, stage |-> Some(stage)]),
          storeOf |-> [so EXCEPT ![c] = Len(ss) + 1]]

\* What async context c reads: its pipeline id and its stage.
View(ss, so, c) == <<getPipelineId(ss, so, c), getStage(ss, so, c)>>

\* The async contexts other than c whose reads differ between two states.
Changed(ss, so, ss2, so2, c) ==
    {b \in DOMAIN so : b # c /\ View(ss, so, b) # View(ss2, so2, b)}

NoSet == [made |-> FALSE, context |-> 0, key |-> "", value |-> "", seen |-> Null,
          changed |-> {}]

\* A new async resource is created in context c (a promise continuation, a
\* timer, a request handler): AsyncLocalStorage hands it c's store object.
Fork(c) ==
    /\ c \in DOMAIN storeOf
    /\ Len(storeOf) < MaxContexts
    /\ storeOf' = Append(storeOf, storeOf[c])
    /\ UNCHANGED <<dvars, svars, kvars, ivars, pvars, wvars, evars, stores, lastSet>>

\* runWithContext(context, fn) called in context c: fn runs in a new context
\* whose store is the object context.
RunWithContext(c, pipelineId, stage) ==
    /\ c \in DOMAIN storeOf
    /\ Len(storeOf) < MaxContexts
    /\ stores' = Append(stores, [pipelineId |-> pipelineId, stage |-> stage])
    /\ storeOf' = Append(storeOf, Len(stores) + 1)
    /\ UNCHANGED <<dvars, svars, kvars, ivars, pvars, wvars, evars, lastSet>>

\* setPipelineId(pipelineId) called in async context c
ContextSetPipelineId(c, pipelineId) ==
    /\ c \in DOMAIN storeOf
    /\ LET r == setContextPipelineId(stores, storeOf, c, pipelineId)
       IN  /\ stores' = r.stores
           /\ storeOf' = r.storeOf
           /\ lastSet' = [made |-> TRUE, context |-> c, key |-> "pipelineId",
                          value |-> pipelineId,
                          seen |-> getPipelineId(r.stores, r.storeOf, c),
                          changed |-> Changed(stores, storeOf, r.stores, r.storeOf, c)]
    /\ UNCHANGED <<dvars, svars, kvars, ivars, pvars, wvars, evars>>

\* setStage(stage) called in async context c
ContextSetStage(c, stage) ==
    /\ c \in DOMAIN storeOf
    /\ LET r == setContextStage(stores, storeOf, c, stage)
       IN  /\ stores' = r.stores
           /\ storeOf' = r.storeOf
           /\ lastSet' = [made |-> TRUE, context |-> c, key |-> "stage",
                          value |-> stage,
                          seen |-> getStage(r.stores, r.storeOf, c),
                          changed |-> Changed(stores, storeOf, r.stores, r.storeOf, c)]
    /\ UNCHANGED <<dvars, svars, kvars, ivars, pvars, wvars, evars>>

\* The wrapped method is called in async context c: it reads the stage,
\* starts the span and calls the original method.  What follows the await
\* runs in an async resource created in c during the call, to which
\* AsyncLocalStorage hands the store object c has then.
InvokeIn(c, provider, kwModel) ==
    /\ c \in DOMAIN storeOf
    /\ Len(storeOf) < MaxContexts
    /\ call.pc # "awaiting"
    /\ storeOf' = Append(storeOf, storeOf[c])
    /\ call' = [Idle EXCEPT !.pc = "awaiting", !.provider = provider, !.kwModel = kwModel,
                            !.stage = IF getStage(stores, storeOf, c) # Null
                                      THEN getStage(stores, storeOf, c)[1]
                                      ELSE spanName(provider),
                            !.context = Len(storeOf) + 1,
                            !.invoked = [pipelineId |-> getPipelineId(stores, storeOf, c),
                                         stage |-> getStage(stores, storeOf, c)]]
    /\ span' = [name |-> spanName(provider), attrs |-> NoAttrs, ended |-> 0]
    /\ outcome' = Pending
    /\ UNCHANGED <<dvars, svars, kvars, ivars, pvars, evars, ctx, faultModel, stores, lastSet>>

\* The original method of a call made in an async context resolves with
\* response: the inner try block runs in the continuation's context, where
\* getPipelineId() reads the store that context was handed.
ProviderResolvesIn(response, fault) ==
    /\ call.pc = "awaiting"
    /\ call.context # 0
    /\ fault \in Faults(faultModel)
    /\ LET inner == innerTry(table, call.provider, call.kwModel, call.stage,
                             getPipelineId(stores, storeOf, call.context), response, fault)
       IN  /\ span' = [span EXCEPT !.attrs = inner.attrs, !.ended = @ + 1]
           /\ outcome' = onFulfilled(inner, response)
           /\ call' = [call EXCEPT !.pc = "done", !.settled = "resolved",
                                   !.response = response, !.fault = fault,
                                   !.internalError = inner.threw]
    /\ UNCHANGED <<xvars, pvars, evars, ctx, faultModel>>

----------------------------------------------------------------------------
(* The collector: ingest handlers, write buffer, database writer, spans    *)
(* table, continuous aggregates and query endpoints.  The schema and the   *)
(* aggregates are the SQL of the migrations; the handlers, the buffer, the *)
(* writer and the queries follow the collector's specification.            *)

Handlers == {1, 2}

\* The span record of the ingest payloads tried, by span id.  Times are in
\* minutes.  Every third span belongs to pipe-b and costs zero; of the others
\* every second one has no cost (and no input token count).
Record(id) ==
    [span_id |-> id,
     time |-> 35 * (id - 1),
     pipeline_id |-> IF id % 3 = 0 THEN "pipe-b" ELSE "pipe-a",
     stage |-> "extract", model |-> "A", provider |-> "openai",
     tokens_input |-> IF id % 3 = 2 THEN Null ELSE Some(id),
     tokens_output |-> Some(id + 1),
     cost_total |-> IF id % 3 = 0 THEN Some(0)
                    ELSE IF id % 3 = 2 THEN Null ELSE Some(10 * id)]

PipelineNames == {"pipe-a", "pipe-b", "pipe-c"}

\* The request bodies tried: every single span, and the first two together.
Payloads == {<<Record(id)>> : id \in 1..MaxRecords} \cup {<<Record(1), Record(2)>>}

\* A slip the buffer could have: a full buffer refuses the new record.
bufferEnqueue_dropNewest(buf, ov, rec, cap) ==
    IF Len(buf) >= cap
    THEN [buffer |-> buf, overflow |-> ov + 1]
    ELSE [buffer |-> Append(buf, rec), overflow |-> ov]

\* The write buffer's enqueue: into a full buffer the head is discarded, the
\* record appended and the overflow counter incremented; the producer is
\* never blocked or refused.
bufferEnqueue(buf, ov, rec, cap) ==
    IF Len(buf) >= cap
    THEN [buffer |-> Append(Tail(buf), rec), overflow |-> ov + 1]
    ELSE [buffer |-> Append(buf, rec), overflow |-> ov]

\* The writer re-enqueues a batch at the front of the buffer; what no longer
\* fits is dropped, oldest first, and counted as overflow.
reEnqueue(buf, ov, batch, cap) ==
    LET all == batch \o buf
        excess == IF Len(all) > cap THEN Len(all) - cap ELSE 0
    IN  [buffer |-> SubSeq(all, excess + 1, Len(all)), overflow |-> ov + excess]

\* PRIMARY KEY (time, span_id) of the spans table: whether inserting the
\* batch would give two rows the same key.
keyOf(r) == <<r.time, r.span_id>>
violatesPrimaryKey(table_rows, batch) ==
    LET all == table_rows \o batch
    IN  \E i, j \in 1..Len(all) : i < j /\ keyOf(all[i]) = keyOf(all[j])

\* time_bucket(width, time)
time_bucket(width, time) == time - (time % width)
HourWidth == 60
DayWidth == 24 * 60
WeekWidth == 7 * 24 * 60

\* SUM over a nullable column of a sequence of rows: nulls are skipped, and
\* the sum of no value is null.
RECURSIVE SUM(_, _)
SUM(rs, column) ==
    IF rs = <<>> THEN Null
    ELSE LET rest == SUM(Tail(rs), column)
             v == Head(rs)[column]
         IN  IF v = Null THEN rest
             ELSE IF rest = Null THEN v ELSE Some(v[1] + rest[1])

groupOf(r, width) ==
    [bucket |-> time_bucket(width, r.time), pipeline_id |-> r.pipeline_id,
     stage |-> r.stage, model |-> r.model, provider |-> r.provider]

\* A slip the aggregates could have: no WHERE clause.
cost_view_noWhere(table_rows, width) ==
    LET groups == {groupOf(table_rows[i], width) : i \in 1..Len(table_rows)}
    IN  {LET members == SelectSeq(table_rows, LAMBDA r : groupOf(r, width) = g)
         IN  [group |-> g,
              total_cost |-> SUM(members, "cost_total"),
              total_tokens_input |-> SUM(members, "tokens_input"),
              total_tokens_output |-> SUM(members, "tokens_output"),
              span_count |-> Len(members)] : g \in groups}

\* The SELECT of a continuous aggregate over the spans table: the rows with
\* a cost_total, grouped by bucket, pipeline_id, stage, model and provider.
\* avg_cost_per_span is total_cost / span_count and is left out.
cost_view(table_rows, width) ==
    LET costed == SelectSeq(table_rows, LAMBDA r : r.cost_total # Null)
        groups == {groupOf(costed[i], width) : i \in 1..Len(costed)}
    IN  {LET members == SelectSeq(costed, LAMBDA r : groupOf(r, width) = g)
         IN  [group |-> g,
              total_cost |-> SUM(members, "cost_total"),
              total_tokens_input |-> SUM(members, "tokens_input"),
              total_tokens_output |-> SUM(members, "tokens_output"),
              span_count |-> Len(members)] : g \in groups}

cost_hourly(table_rows) == cost_view(table_rows, HourWidth)
cost_daily(table_rows) == cost_view(table_rows, DayWidth)
cost_weekly(table_rows) == cost_view(table_rows, WeekWidth)

\* A slip the pipeline query could have: a missing cost counts as a cost of 0.
pipelineCost_nullAsZero(table_rows, pipeline_id) ==
    LET spans == SelectSeq(table_rows, LAMBDA r : r.pipeline_id = pipeline_id)
        sum == SUM(spans, "cost_total")
    IN  [found |-> spans # <<>>,
         total_cost |-> IF sum = Null THEN 0 ELSE sum[1],
         coverage_ratio |-> [num |-> Len(spans), den |-> Len(spans)],
         is_partial |-> FALSE]

\* GET /v1/pipelines/{pipeline_id}/cost: total_cost is the sum of the
\* non-null cost_total values (0.0 when there is none), coverage_ratio the
\* count of non-null cost_total over the count of spans, kept as a fraction,
\* and is_partial is coverage_ratio < 1.0.  Unknown pipeline: 404.
pipelineCost(table_rows, pipeline_id) ==
    LET spans == SelectSeq(table_rows, LAMBDA r : r.pipeline_id = pipeline_id)
        costed == SelectSeq(spans, LAMBDA r : r.cost_total # Null)
        sum == SUM(costed, "cost_total")
    IN  [found |-> spans # <<>>,
         total_cost |-> IF sum = Null THEN 0 ELSE sum[1],
         coverage_ratio |-> [num |-> Len(costed), den |-> Len(spans)],
         is_partial |-> Len(costed) < Len(spans)]

\* buffer_usage > 0.9, for a depth and a capacity
above90(depth, cap) == 10 * depth > 9 * cap

\* A slip the health status could have: a lost database connection is
\* looked at first.
healthStatus_degradedFirst(connected, depth, cap) ==
    IF ~connected THEN "degraded"
    ELSE IF above90(depth, cap) THEN "unhealthy" ELSE "healthy"

\* status of GET /v1/health: unhealthy when buffer_usage > 0.9, as in the
\* buffer overflow scenario with the database down; otherwise degraded when
\* db_connected is false, and healthy when neither holds.
healthStatus(connected, depth, cap) ==
    IF above90(depth, cap) THEN "unhealthy"
    ELSE IF ~connected THEN "degraded" ELSE "healthy"

NoPosts == [count |-> 0, times |-> [id \in 1..MaxRecords |-> 0]]
NoRace == [on |-> FALSE, done |-> FALSE, depth |-> 0, overflow |-> 0, drained |-> FALSE]
WriterIdle == [pc |-> "idle", batch |-> <<>>]
NoQuery == [kind |-> "none"]

\* POST /v1/traces reaches handler h: the payload is decoded and its spans,
\* all of which carry the required attributes, are accepted.  race opens when
\* another handler holds one accepted record it has not enqueued yet and this
\* request brings one more: it keeps the buffer depth and the overflow
\* counter the two enqueues start from, whether the writer drained the
\* buffer or put a batch back meanwhile, and whether both enqueues are done.
Post(h, payload) ==
    /\ posts.count < MaxPosts
    /\ handlers[h] = <<>>
    /\ handlers' = [handlers EXCEPT ![h] = payload]
    /\ posts' = [count |-> posts.count + 1,
                 times |-> [id \in 1..MaxRecords |->
                               posts.times[id]
                               + Cardinality({i \in 1..Len(payload) :
                                                 payload[i].span_id = id})]]
    /\ race' = IF Len(payload) = 1 /\ \E g \in Handlers \ {h} : Len(handlers[g]) = 1
               THEN [on |-> TRUE, done |-> FALSE, depth |-> Len(buffer),
                     overflow |-> overflow, drained |-> FALSE]
               ELSE NoRace
    /\ UNCHANGED <<buffer_max_size, buffer, overflow, writer, rows, db_connected, dbUp,
                   lastQuery, uvars, pvars, wvars, evars>>

\* Handler h enqueues its next accepted record, in payload order.
Enqueue(h) ==
    /\ handlers[h] # <<>>
    /\ LET r == bufferEnqueue(buffer, overflow, Head(handlers[h]), buffer_max_size)
       IN  buffer' = r.buffer /\ overflow' = r.overflow
    /\ handlers' = [handlers EXCEPT ![h] = Tail(@)]
    /\ race' = IF race.on /\ \A g \in Handlers : handlers'[g] = <<>>
               THEN [race EXCEPT !.on = FALSE, !.done = TRUE]
               ELSE race
    /\ UNCHANGED <<buffer_max_size, writer, rows, db_connected, dbUp, posts, lastQuery,
                   uvars, pvars, wvars, evars>>

\* The writer task drains up to MaxWriteBatch records for one insert.
Drain ==
    /\ writer.pc = "idle"
    /\ buffer # <<>>
    /\ LET n == Min(MaxWriteBatch, Len(buffer))
       IN  /\ writer' = [pc |-> "insert", batch |-> SubSeq(buffer, 1, n)]
           /\ buffer' = SubSeq(buffer, n + 1, Len(buffer))
    /\ race' = IF race.on THEN [race EXCEPT !.drained = TRUE] ELSE race
    /\ UNCHANGED <<buffer_max_size, overflow, handlers, rows, db_connected, dbUp, posts,
                   lastQuery, uvars, pvars, wvars, evars>>

\* The multi-row insert succeeds.
Insert ==
    /\ writer.pc = "insert"
    /\ dbUp
    /\ ~violatesPrimaryKey(rows, writer.batch)
    /\ rows' = rows \o writer.batch
    /\ db_connected' = TRUE
    /\ writer' = WriterIdle
    /\ UNCHANGED <<buffer_max_size, buffer, overflow, handlers, dbUp, posts, race,
                   lastQuery, uvars, pvars, wvars, evars>>

\* The multi-row insert violates the primary key, a permanent error: it
\* fails again when retried, and the batch is dropped.
InsertConflict ==
    /\ writer.pc = "insert"
    /\ dbUp
    /\ violatesPrimaryKey(rows, writer.batch)
    /\ writer' = WriterIdle
    /\ UNCHANGED <<buffer_max_size, buffer, overflow, handlers, rows, db_connected, dbUp,
                   posts, race, lastQuery, uvars, pvars, wvars, evars>>

\* The database is unreachable, a transient error: the batch goes back to
\* the front of the buffer and db_connected becomes false.
InsertFails ==
    /\ writer.pc = "insert"
    /\ ~dbUp
    /\ LET r == reEnqueue(buffer, overflow, writer.batch, buffer_max_size)
       IN  buffer' = r.buffer /\ overflow' = r.overflow
    /\ db_connected' = FALSE
    /\ writer' = [pc |-> "sleep", batch |-> <<>>]
    /\ race' = IF race.on THEN [race EXCEPT !.drained = TRUE] ELSE race
    /\ UNCHANGED <<buffer_max_size, handlers, rows, dbUp, posts, lastQuery,
                   uvars, pvars, wvars, evars>>

\* db_retry_interval_seconds have passed.
RetryIntervalElapses ==
    /\ writer.pc = "sleep"
    /\ writer' = WriterIdle
    /\ UNCHANGED <<buffer_max_size, buffer, overflow, handlers, rows, db_connected, dbUp,
                   posts, race, lastQuery, uvars, pvars, wvars, evars>>

\* The database goes down or comes back.
DbToggles ==
    /\ dbUp' = ~dbUp
    /\ UNCHANGED <<buffer_max_size, buffer, overflow, handlers, writer, rows,
                   db_connected, posts, race, lastQuery, uvars, pvars, wvars, evars>>

\* GET /v1/health
GetHealth ==
    /\ lastQuery' = [kind |-> "health",
                     status |-> healthStatus(db_connected, Len(buffer), buffer_max_size),
                     db_connected |-> db_connected,
                     depth |-> Len(buffer)]
    /\ UNCHANGED <<buffer_max_size, buffer, overflow, handlers, writer, rows,
                   db_connected, dbUp, posts, race, uvars, pvars, wvars, evars>>

\* GET /v1/pipelines/{pipeline_id}/cost
GetPipelineCost(pipeline_id) ==
    /\ lastQuery' = [kind |-> "pipeline", pipeline_id |-> pipeline_id,
                     response |-> pipelineCost(rows, pipeline_id)]
    /\ UNCHANGED <<buffer_max_size, buffer, overflow, handlers, writer, rows,
                   db_connected, dbUp, posts, race, uvars, pvars, wvars, evars>>

----------------------------------------------------------------------------
(* Specifications *)

\* new HikariSpanExporter(config): an empty queue and the flush timer started
InitExporter ==
    /\ queue = <<>>
    /\ shutdown_flag = FALSE
    /\ flushTimer = TRUE
    /\ batches = <<>>
    /\ nextSpan = 1
    /\ lastExport = NoExport

\* No configure() yet, nothing patched, one async context without a store.
InitCollector ==
    /\ buffer = <<>>
    /\ overflow = 0
    /\ handlers = [h \in Handlers |-> <<>>]
    /\ writer = WriterIdle
    /\ rows = <<>>
    /\ db_connected = TRUE
    /\ dbUp = TRUE
    /\ posts = NoPosts
    /\ race = NoRace
    /\ lastQuery = NoQuery

InitClient ==
    /\ pending = <<>>
    /\ sd = NoShutdown
    /\ tracerProvider = Null
    /\ spanExporter = Null
    /\ instrumentor = Null
    /\ endpoint = endpointOf(Null)
    /\ lastConfigure = NoConfigure
    /\ method = [p \in Providers |-> Original]
    /\ originals = [p \in Providers |-> Null]
    /\ patchedProviders = <<>>
    /\ lastInstrument = NoInstrument
    /\ stores = <<>>
    /\ storeOf = <<0>>
    /\ lastSet = NoSet

\* Every provider package installed at its minimum version.
AllInstalled == [p \in Providers |-> Installed(MIN_VERSION(p), TRUE, TRUE)]

InitExtra ==
    /\ InitClient
    /\ InitCollector
    /\ buffer_max_size = MaxBuffer

InitCore ==
    /\ costCall = NoCostCall
    /\ ctx = [pipelineId |-> Null, stage |-> Null]
    /\ call = Idle
    /\ span = NoSpan
    /\ outcome = Pending
    /\ InitExporter
    /\ InitExtra
    /\ maxQueueSize = MaxQueue
    /\ batchSize = MaxBatch

InitBase ==
    /\ InitCore
    /\ modules = AllInstalled

InitPricing ==
    /\ InitBase
    /\ \E o \in Overrides : table = PricingModel(o) /\ pricingLog = NoUpdates(o)
    /\ faultModel = "otel"

NextPricing ==
    \/ \E k \in UpdateKeys, io \in UpdatePrices : Update(k, io[1], io[2])
    \/ \E p \in PricingProviders, m \in ModelNames, it \in OptTokens, ot \in OptTokens :
          ComputeCost(p, m, it, ot)

SpecPricing == InitPricing /\ [][NextPricing]_vars

InitWrapper ==
    /\ InitBase
    /\ \E o \in Overrides : table = PricingModel(o) /\ pricingLog = NoUpdates(o)
    /\ faultModel = "otel"

InitWrapperFaults ==
    /\ InitBase
    /\ table = PricingModel(<<>>)
    /\ pricingLog = NoUpdates(<<>>)
    /\ faultModel = "any"

NextWrapper ==
    \/ \E s \in Stages : SetStage(s)
    \/ \E p \in PipelineIds : SetPipelineId(p)
    \/ \E p \in Providers, m \in KwModels : Invoke(p, m)
    \/ \E r \in Responses, f \in Faults(faultModel) : ProviderResolves(r, f)
    \/ \E e \in Errors : ProviderRejects(e)

SpecWrapper == InitWrapper /\ [][NextWrapper]_vars
SpecWrapperFaults == InitWrapperFaults /\ [][NextWrapper]_vars

\* The exporter, for every configuration within the bounds.
Init ==
    /\ costCall = NoCostCall
    /\ ctx = [pipelineId |-> Null, stage |-> Null]
    /\ call = Idle
    /\ span = NoSpan
    /\ outcome = Pending
    /\ table = PricingModel(<<>>)
    /\ pricingLog = NoUpdates(<<>>)
    /\ faultModel = "otel"
    /\ InitExporter
    /\ InitExtra
    /\ modules = AllInstalled
    /\ maxQueueSize \in 0..MaxQueue
    /\ batchSize \in 1..MaxBatch

Next ==
    \/ \E k \in 1..MaxPerExport : Export(k)
    \/ TimerFlush
    \/ ForceFlush
    \/ Shutdown
    \/ \E i \in 1..MaxSpans : FetchOk(i)
    \/ \E i \in 1..MaxSpans : FetchFails(i)
    \/ \E i \in 1..MaxSpans : BackoffElapses(i)

Spec == Init /\ [][Next]_vars

\* A HikariInstrumentor used directly, for every state of the three packages.
InitInstrument ==
    /\ InitCore
    /\ table = PricingModel(<<>>)
    /\ pricingLog = NoUpdates(<<>>)
    /\ faultModel = "otel"
    /\ modules \in {f \in [Providers -> UNION {ModuleStates(p) : p \in Providers}] :
                       \A p \in Providers : f[p] \in ModuleStates(p)}

NextInstrument ==
    \/ Instrument
    \/ Uninstrument

SpecInstrument == InitInstrument /\ [][NextInstrument]_vars

\* The SDK driven through index.ts: no exporter exists before configure().
InitSdk ==
    /\ costCall = NoCostCall
    /\ ctx = [pipelineId |-> Null, stage |-> Null]
    /\ call = Idle
    /\ span = NoSpan
    /\ outcome = Pending
    /\ table = PricingModel(<<>>)
    /\ pricingLog = NoUpdates(<<>>)
    /\ faultModel = "otel"
    /\ queue = <<>>
    /\ shutdown_flag = FALSE
    /\ flushTimer = FALSE
    /\ batches = <<>>
    /\ nextSpan = 1
    /\ lastExport = NoExport
    /\ maxQueueSize = MaxQueue
    /\ batchSize = MaxBatch
    /\ InitExtra
    /\ modules = AllInstalled

NextSdk ==
    \/ \E cfg \in Configs : Configure(cfg)
    \/ SpanEnds
    \/ ProcessorExport
    \/ TimerFlush
    \/ ShutdownCall
    \/ ExporterShutdownResolves
    \/ ShutdownResolves
    \/ \E i \in 1..MaxSpans : FetchOk(i)
    \/ \E i \in 1..MaxSpans : FetchFails(i)
    \/ \E i \in 1..MaxSpans : BackoffElapses(i)

SpecSdk == InitSdk /\ [][NextSdk]_vars

\* configure() and shutdown() alone, for every state of the three packages.
InitConfigure ==
    /\ costCall = NoCostCall
    /\ ctx = [pipelineId |-> Null, stage |-> Null]
    /\ call = Idle
    /\ span = NoSpan
    /\ outcome = Pending
    /\ table = PricingModel(<<>>)
    /\ pricingLog = NoUpdates(<<>>)
    /\ faultModel = "otel"
    /\ queue = <<>>
    /\ shutdown_flag = FALSE
    /\ flushTimer = FALSE
    /\ batches = <<>>
    /\ nextSpan = 1
    /\ lastExport = NoExport
    /\ maxQueueSize = MaxQueue
    /\ batchSize = MaxBatch
    /\ InitExtra
    /\ modules \in {f \in [Providers -> UNION {ModuleStates(p) : p \in Providers}] :
                       \A p \in Providers : f[p] \in ModuleStates(p)}

NextConfigure ==
    \/ \E cfg \in Configs : Configure(cfg)
    \/ ShutdownCall
    \/ ExporterShutdownResolves
    \/ ShutdownResolves

SpecConfigure == InitConfigure /\ [][NextConfigure]_vars

\* Async contexts setting and reading the Hikari context.
NextContext ==
    \/ \E c \in 1..MaxContexts : Fork(c)
    \/ \E c \in 1..MaxContexts, p \in {Null} \cup {Some(v) : v \in ContextValues},
          s \in {Null} \cup {Some(v) : v \in ContextValues} : RunWithContext(c, p, s)
    \/ \E c \in 1..MaxContexts, v \in ContextValues : ContextSetPipelineId(c, v)
    \/ \E c \in 1..MaxContexts, v \in ContextValues : ContextSetStage(c, v)

InitContext ==
    /\ InitBase
    /\ table = PricingModel(<<>>)
    /\ pricingLog = NoUpdates(<<>>)
    /\ faultModel = "otel"

SpecContext == InitContext /\ [][NextContext]_vars

\* Wrapped provider calls made by an async context that sets the Hikari
\* context before the calls and while they are in flight.
NextInFlight ==
    \/ \E v \in ContextValues : ContextSetPipelineId(1, v)
    \/ \E v \in ContextValues : ContextSetStage(1, v)
    \/ \E p \in Providers, m \in KwModels : InvokeIn(1, p, m)
    \/ \E r \in {x \in Responses : x = Null \/ x[1].usage = Null},
          f \in Faults(faultModel) : ProviderResolvesIn(r, f)
    \/ \E e \in Errors : ProviderRejects(e)

SpecInFlight == InitContext /\ [][NextInFlight]_vars

InitIngest ==
    /\ costCall = NoCostCall
    /\ ctx = [pipelineId |-> Null, stage |-> Null]
    /\ call = Idle
    /\ span = NoSpan
    /\ outcome = Pending
    /\ InitExporter
    /\ InitClient
    /\ InitCollector
    /\ maxQueueSize = MaxQueue
    /\ batchSize = MaxBatch
    /\ modules = AllInstalled
    /\ table = PricingModel(<<>>)
    /\ pricingLog = NoUpdates(<<>>)
    /\ faultModel = "otel"
    /\ buffer_max_size \in 1..MaxBuffer

NextIngest ==
    \/ \E h \in Handlers, payload \in Payloads : Post(h, payload)
    \/ \E h \in Handlers : Enqueue(h)
    \/ Drain
    \/ Insert
    \/ InsertConflict
    \/ InsertFails
    \/ RetryIntervalElapses
    \/ DbToggles

SpecIngest == InitIngest /\ [][NextIngest]_vars

\* The states of the spans table tried: every sequence of distinct records.
TableStates ==
    {q \in UNION {[1..n -> {Record(id) : id \in 1..MaxRecords}] : n \in 0..MaxRecords} :
        \A i, j \in 1..Len(q) : i # j => q[i] # q[j]}

\* The query endpoints, asked of a collector whose table holds any rows,
\* whose buffer is filled to any depth and whose writer has or has not lost
\* the database.
InitQuery ==
    /\ costCall = NoCostCall
    /\ ctx = [pipelineId |-> Null, stage |-> Null]
    /\ call = Idle
    /\ span = NoSpan
    /\ outcome = Pending
    /\ InitExporter
    /\ InitClient
    /\ maxQueueSize = MaxQueue
    /\ batchSize = MaxBatch
    /\ modules = AllInstalled
    /\ table = PricingModel(<<>>)
    /\ pricingLog = NoUpdates(<<>>)
    /\ faultModel = "otel"
    /\ buffer_max_size \in 1..MaxBuffer
    /\ \E depth \in 0..buffer_max_size : buffer = [i \in 1..depth |-> Record(1)]
    /\ overflow = 0
    /\ handlers = [h \in Handlers |-> <<>>]
    /\ writer = WriterIdle
    /\ rows \in TableStates
    /\ db_connected \in BOOLEAN
    /\ dbUp = db_connected
    /\ posts = NoPosts
    /\ race = NoRace
    /\ lastQuery = NoQuery

NextQuery ==
    \/ GetHealth
    \/ \E p \in PipelineNames : GetPipelineCost(p)

SpecQuery == InitQuery /\ [][NextQuery]_vars

----------------------------------------------------------------------------
(* Claims about the pricing model *)

CallKey == costCall.provider \o "/" \o costCall.model

\* C4: computeCost null propagation. inputCost is null exactly when the model
\* is absent from the pricing table or inputTokens is null, likewise
\* outputCost with outputTokens, and totalCost is null exactly when inputCost
\* or outputCost is null, so it is never the one known component alone.
C4_NullPropagation ==
    costCall.made =>
        LET r == costCall.result
            absent == CallKey \notin DOMAIN costCall.table
        IN  /\ (r.inputCost = Null) <=> (absent \/ costCall.inputTokens = Null)
            /\ (r.outputCost = Null) <=> (absent \/ costCall.outputTokens = Null)
            /\ (r.totalCost = Null) <=> (r.inputCost = Null \/ r.outputCost = Null)

\* a priced model called with one known and one unknown token count
C4_Witness ==
    /\ costCall.made
    /\ CallKey \in DOMAIN costCall.table
    /\ costCall.inputTokens = Null
    /\ costCall.outputTokens # Null
    /\ costCall.result.outputCost # Null
    /\ costCall.result.totalCost = Null

\* C6: for a model in the pricing table and non-null token counts, inputCost
\* is inputCostPerToken x inputTokens, outputCost is outputCostPerToken x
\* outputTokens and totalCost is their sum; zero tokens cost zero, not null.
C6_CostArithmetic ==
    (/\ costCall.made
     /\ CallKey \in DOMAIN costCall.table
     /\ costCall.inputTokens # Null
     /\ costCall.outputTokens # Null) =>
        LET r == costCall.result
            price == costCall.table[CallKey]
        IN  /\ r.inputCost = Some(price.inputCostPerToken * costCall.inputTokens[1])
            /\ r.outputCost = Some(price.outputCostPerToken * costCall.outputTokens[1])
            /\ r.totalCost = Some(price.inputCostPerToken * costCall.inputTokens[1]
                                  + price.outputCostPerToken * costCall.outputTokens[1])
            /\ (costCall.inputTokens = Some(0) => r.inputCost = Some(0))
            /\ (costCall.outputTokens = Some(0) => r.outputCost = Some(0))

\* a priced model called with zero input tokens and some output tokens
C6_Witness ==
    /\ costCall.made
    /\ CallKey = "openai/gpt-4o"
    /\ costCall.table[CallKey].outputCostPerToken = 10000
    /\ costCall.inputTokens = Some(0)
    /\ costCall.outputTokens = Some(2)
    /\ costCall.result.inputCost = Some(0)
    /\ costCall.result.totalCost = Some(20000)

----------------------------------------------------------------------------
(* Claims about the provider wrappers *)

\* C1: fail-open. Whenever the original provider method resolves, the wrapped
\* method resolves with that same response, also when token extraction, cost
\* computation or a span.setAttribute throws inside the wrapper.
C1_FailOpen ==
    (call.pc = "done" /\ call.settled = "resolved") =>
        outcome = [kind |-> "resolved", value |-> call.response]

\* a call whose cost computation threw after the first attributes were set
C1_Witness ==
    /\ call.pc = "done"
    /\ call.settled = "resolved"
    /\ call.fault = "computeCost"
    /\ call.internalError
    /\ call.response # Null
    /\ span.attrs[PROVIDER] # Null
    /\ outcome.kind = "resolved"

\* C2: provider errors propagate unchanged. When the original provider method
\* rejects, the wrapped method rejects with the same error, after ending the
\* span it started.
C2_ProviderErrorPropagates ==
    (call.pc = "done" /\ call.settled = "rejected") =>
        /\ outcome = [kind |-> "rejected", value |-> Some(call.err)]
        /\ span.ended = 1

\* a call the provider rejected
C2_Witness ==
    /\ call.pc = "done"
    /\ call.settled = "rejected"
    /\ call.err = "API Error"
    /\ outcome.kind = "rejected"
    /\ span.ended = 1

\* What the provider's response says about a token count: Null when unknown.
KnownTokens(response) ==
    IF response = Null \/ response[1].usage = Null THEN <<Null, Null>>
    ELSE <<response[1].usage[1].prompt_tokens, response[1].usage[1].completion_tokens>>

\* Whether the span's model has a price in the table.
Priced == span.attrs[MODEL] # Null
          /\ (call.provider \o "/" \o span.attrs[MODEL][1]) \in DOMAIN table

\* C5: null means unknown, never zero. A hikari.tokens.* or hikari.cost.*
\* attribute is on a span only when its value is known, and then it is that
\* value and not a 0 standing for an unknown one; hikari.cost.total is on a
\* span exactly when hikari.cost.input and hikari.cost.output both are.
C5_NullNeverZero ==
    call.pc = "done" =>
        LET a == span.attrs
            known == IF call.settled = "resolved" THEN KnownTokens(call.response)
                     ELSE <<Null, Null>>
        IN  /\ a[TOKENS_INPUT] # Null => a[TOKENS_INPUT] = known[1]
            /\ a[TOKENS_OUTPUT] # Null => a[TOKENS_OUTPUT] = known[2]
            /\ a[COST_INPUT] # Null => (Priced /\ known[1] # Null)
            /\ a[COST_OUTPUT] # Null => (Priced /\ known[2] # Null)
            /\ a[COST_TOTAL] # Null => (Priced /\ known[1] # Null /\ known[2] # Null)
            /\ (a[COST_TOTAL] # Null) <=> (a[COST_INPUT] # Null /\ a[COST_OUTPUT] # Null)

\* a span of a priced model whose response gave zero input tokens and no
\* output token count
C5_Witness ==
    /\ call.pc = "done"
    /\ call.settled = "resolved"
    /\ Priced
    /\ span.attrs[TOKENS_INPUT] = Some(0)
    /\ span.attrs[TOKENS_OUTPUT] = Null
    /\ span.attrs[COST_INPUT] = Some(0)
    /\ span.attrs[COST_OUTPUT] = Null
    /\ span.attrs[COST_TOTAL] = Null

----------------------------------------------------------------------------
(* Claims about the exporter *)

BatchIds == 1..Len(batches)

\* C3: export() never throws to its caller and invokes resultCallback exactly
\* once, with SUCCESS, on every call: when spans are enqueued, when old spans
\* are dropped by overflow, when a flush it triggers fails all its send
\* attempts, and when the exporter is already shut down.
C3_ExportAlwaysSucceeds ==
    lastExport.made => (lastExport.cb = <<"SUCCESS">> /\ ~lastExport.threw)

\* an export() that dropped an old span by overflow and started a flush whose
\* send attempts have all failed
C3_Witness ==
    /\ lastExport.made
    /\ ~lastExport.shut
    /\ Len(lastExport.enq) < Len(lastExport.before) + Len(lastExport.spans)
    /\ lastExport.flushed
    /\ batches[lastExport.batch].phase = "dropped"
    /\ lastExport.cb = <<"SUCCESS">>

\* C7 (as claimed): after any sequence of export(), timer flushes,
\* forceFlush() and shutdown(), the queue never holds more than maxQueueSize
\* spans, for every configured maxQueueSize.
C7_QueueBounded == Len(queue) <= maxQueueSize

\* The spans a queue of capacity max keeps of all, the most recent ones.
Suffix(all, n) == SubSeq(all, Len(all) - n + 1, Len(all))

\* C8: drop-oldest on overflow. When export() adds a span while the queue
\* already holds maxQueueSize spans, exactly the head is discarded and the new
\* span is appended at the tail, so that the queue holds the most recently
\* exported spans in arrival order, after the enqueueing and after the call;
\* the producer is never blocked or refused.
C8_DropOldest ==
    (lastExport.made /\ ~lastExport.shut) =>
        LET before == lastExport.before
            new == lastExport.spans
            enq == lastExport.enq
        IN  /\ Len(enq) <= Len(before) + Len(new)
            /\ enq = Suffix(before \o new, Len(enq))
            /\ enq # <<>> /\ enq[Len(enq)] = new[Len(new)]
            /\ (Len(new) = 1 /\ Len(before) = maxQueueSize) =>
                  enq = SubSeq(before, 2, Len(before)) \o new
            /\ Len(lastExport.after) <= Len(enq)
            /\ lastExport.after = Suffix(enq, Len(lastExport.after))
            /\ lastExport.cb = <<"SUCCESS">>

\* one span exported into a full queue: the head is gone, the rest and the
\* new span follow in order
C8_Witness ==
    /\ lastExport.made
    /\ ~lastExport.shut
    /\ maxQueueSize >= 1
    /\ Len(lastExport.before) = maxQueueSize
    /\ Len(lastExport.spans) = 1
    /\ lastExport.enq = Tail(lastExport.before) \o lastExport.spans
    /\ \A j \in 1..Len(lastExport.enq) : lastExport.enq[j] # lastExport.before[1]

\* C9 (as claimed): a batch whose send keeps failing is retried 3 times, the
\* delays 1s, 2s and 4s each being waited before a retry, and is dropped only
\* after those 3 retries have failed.
C9_ThreeRetries ==
    \A i \in BatchIds :
        batches[i].phase = "dropped" =>
            /\ batches[i].posts - 1 = 3
            /\ batches[i].waited = <<1000, 2000, 4000>>

----------------------------------------------------------------------------
(* Claims about shutdown() *)

\* The spans that have been POSTed to the collector at least once.
Posted == UNION {{batches[i].spans[j] : j \in 1..Len(batches[i].spans)} : i \in BatchIds}

\* C11: by the time shutdown() resolves, every span that had ended before it
\* was called, whether buffered in the span processor or waiting in the
\* exporter queue, has been POSTed to the collector (or dropped after the
\* retries of its batch), the queue holds no unsent span, and the flush timer
\* is stopped.
C11_ShutdownFlushes ==
    sd.pc = "resolved" =>
        /\ \A i \in 1..Len(sd.ended) : sd.ended[i] \in Posted
        /\ queue = <<>>
        /\ ~flushTimer

----------------------------------------------------------------------------
(* Claims about the attributes of the spans *)

\* C12: every span a provider wrapper emits carries hikari.stage,
\* hikari.model and hikari.provider, whether the wrapped call resolved or
\* rejected.
C12_RequiredAttributes ==
    span.ended > 0 => \A k \in {STAGE, MODEL, PROVIDER} : span.attrs[k] # Null

\* The hikari.pipeline_id attribute a span is to carry for a context whose
\* pipeline id is p: p itself when setPipelineId() was called with a
\* non-empty id, no attribute otherwise.
PipelineIdFor(p) == IF p # Null /\ p # Some("") THEN p ELSE Null

\* C13: when a wrapped call settles, the span it ends has hikari.pipeline_id
\* set to the context's pipeline id if setPipelineId() was called with a
\* non-empty id, and has no hikari.pipeline_id otherwise.
C13_PipelineIdOverride ==
    [][(call.pc = "awaiting" /\ call'.pc = "done")
          => span'.attrs[PIPELINE_ID] = PipelineIdFor(ctx.pipelineId)]_vars

\* The stage a span is to carry for a context whose stage is s: s itself when
\* setStage() was called, the span name otherwise.
StageFor(s, provider) == IF s # Null THEN s[1] ELSE spanName(provider)

\* C14: the hikari.stage attribute of a span is the stage the context held
\* when the wrapped method was called if setStage() had set one, and the span
\* name {provider}.{operation} otherwise.
C14_StageDefaulting ==
    [][/\ (call.pc # "awaiting" /\ call'.pc = "awaiting")
             => call'.stage = StageFor(ctx.stage, call'.provider)
       /\ (call.pc = "awaiting" /\ call'.pc = "done")
             => span'.attrs[STAGE] = Some(call.stage)]_vars

\* C16: in the OTLP payload of every ended span, each hikari.cost.* attribute
\* is a doubleValue and each hikari.tokens.* attribute an intValue, whatever
\* the value, integer-valued costs such as 0 included.
C16_TypedWireEncoding ==
    span.ended > 0 =>
        LET otlp == spanToOtlp(span.attrs)
        IN  \A k \in DOMAIN otlp :
               /\ k \in CostKeys => otlp[k].type = "doubleValue"
               /\ k \in TokenKeys => otlp[k].type = "intValue"

----------------------------------------------------------------------------
(* Claims about the Hikari context *)

\* C15: a setPipelineId() or setStage() call sets the value for the calling
\* async context only: that context reads the value back, and no other async
\* context, which did not make the call, reads anything different from what
\* it read before the call.
C15_ContextIsolation ==
    lastSet.made => (lastSet.seen = Some(lastSet.value) /\ lastSet.changed = {})

\* C31: the hikari.stage and hikari.pipeline_id a wrapper writes on the span
\* of a call that resolved are those of the Hikari context the caller had
\* when it invoked the wrapped method, whatever setStage() or setPipelineId()
\* calls were made while the call was in flight.
C31_ContextAtInvocation ==
    (call.context # 0 /\ call.pc = "done" /\ call.settled = "resolved"
        /\ ~call.internalError)
    => /\ span.attrs[STAGE] = Some(StageFor(call.invoked.stage, call.provider))
       /\ span.attrs[PIPELINE_ID] = PipelineIdFor(call.invoked.pipelineId)

----------------------------------------------------------------------------
(* Claims about instrumentation *)

\* C17: after instrument() followed by uninstrument(), every provider method
\* that instrument() replaced is the original method again, and a call
\* through it emits no Hikari span.
C17_RoundTrip ==
    lastInstrument.trail = "roundtrip" =>
        \A p \in Providers :
            lastInstrument.ok[p] => (method[p] = Original /\ spansPerCall(method[p]) = 0)

\* C18: a configure() call made while Hikari is configured only warns: the
\* exporter, the tracer provider and the instrumentor stay the ones of the
\* first call, no provider is patched again, and the endpoint, the pricing
\* and the batch settings of the first configuration stay in force.
C18_ConfigureIdempotent ==
    [][(tracerProvider # Null /\ lastConfigure' # lastConfigure)
          => /\ lastConfigure'.warned
             /\ lastConfigure'.created = lastConfigure.created
             /\ UNCHANGED <<spanExporter, tracerProvider, instrumentor, method, originals,
                            patchedProviders, lastInstrument, endpoint, table, batchSize,
                            maxQueueSize, queue, shutdown_flag, flushTimer>>]_vars

\* A second configure() with other settings was ignored: the providers are
\* patched once and the first endpoint is in force.
C18_Witness ==
    /\ tracerProvider # Null
    /\ instrumentor # Null
    /\ lastConfigure.created = 1
    /\ lastConfigure.warned
    /\ endpointOf(lastConfigure.config[1].collectorEndpoint) # endpoint
    /\ patchedProviders = ProviderOrder
    /\ \A p \in Providers : spansPerCall(method[p]) = 1

\* A version below the minimum of a provider: openai 4.0, anthropic 0.18,
\* google 0.3.
BelowMinimum(p) ==
    LET v == modules[p].version
        min == CASE p = "openai" -> <<4, 0>>
                 [] p = "anthropic" -> <<0, 18>>
                 [] p = "google" -> <<0, 3>>
    IN  v[1] < min[1] \/ (v[1] = min[1] /\ v[2] < min[2])

\* The package is missing, too old, or lacks the expected client structure.
Unpatchable(p) ==
    \/ ~modules[p].installed
    \/ BelowMinimum(p)
    \/ ~modules[p].holder
    \/ ~modules[p].hasMethod

\* C19: patch() never throws; for a provider whose package is not installed,
\* is older than the minimum version or lacks the expected client structure
\* it returns false and leaves the provider's method as it was; and when it
\* returns true the method is the tracing wrapper around what was there.
C19_PatchSkipsSafely ==
    [][lastInstrument'.calls = lastInstrument.calls + 1
          => /\ ~lastInstrument'.threw
             /\ \A p \in Providers :
                   /\ Unpatchable(p) => (~lastInstrument'.ok[p] /\ method'[p] = method[p])
                   /\ lastInstrument'.ok[p]
                         => /\ method'[p] # <<>>
                            /\ method'[p][Len(method'[p])] = "wrap"
                            /\ spansPerCall(method'[p]) = spansPerCall(method[p]) + 1]_vars

\* instrument() met a package that is too old, one that is not installed and
\* one it patched.
C19_Witness ==
    /\ lastInstrument.calls = 1
    /\ modules["openai"].installed /\ BelowMinimum("openai")
    /\ ~modules["anthropic"].installed
    /\ lastInstrument.ok = [p \in Providers |-> p = "google"]
    /\ method = [p \in Providers |-> IF p = "google" THEN <<"wrap">> ELSE Original]

\* C20: until the next uninstrument(), getPatchedProviders() returns the list
\* the last instrument() returned, which names exactly the providers whose
\* patch() returned true, in the order openai, anthropic, google; after
\* uninstrument() it returns the empty list.
C20_PatchedProviders ==
    /\ (lastInstrument.calls > 0 /\ ~lastInstrument.uninstrumented)
          => /\ getPatchedProviders(patchedProviders) = lastInstrument.returned
             /\ lastInstrument.returned
                   = SelectSeq(ProviderOrder, LAMBDA p : lastInstrument.ok[p])
    /\ lastInstrument.uninstrumented => getPatchedProviders(patchedProviders) = <<>>

\* A second instrument() returned two of the three providers.
C20_Witness ==
    /\ lastInstrument.calls = 2
    /\ ~lastInstrument.uninstrumented
    /\ lastInstrument.returned = <<"openai", "google">>
    /\ getPatchedProviders(patchedProviders) = <<"openai", "google">>

C22_UninstrumentIdempotent ==
    [][(/\ lastInstrument'.calls = lastInstrument.calls
        /\ lastInstrument'.uninstrumented
        /\ lastInstrument'.repeat)
          => /\ ~lastInstrument'.threw
             /\ UNCHANGED <<method, originals, patchedProviders>>]_vars

\* uninstrument() was called again after it had unpatched two providers.
C22_Witness ==
    /\ lastInstrument.repeat
    /\ lastInstrument.calls = 1
    /\ lastInstrument.first = <<"openai", "google">>
    /\ patchedProviders = <<>>
    /\ \A p \in Providers : spansPerCall(method[p]) = 0 /\ originals[p] = Null

\* C30: whatever instrument() and uninstrument() calls were made, a provider
\* method emits at most one Hikari span per call and exactly one while it is
\* patched, the saved original emits none, and after uninstrument() no
\* provider method emits a span.
C30_SingleWrapperLayer ==
    \A p \in Providers :
        /\ spansPerCall(method[p]) <= 1
        /\ originals[p] # Null
              => (spansPerCall(method[p]) = 1 /\ spansPerCall(originals[p][1]) = 0)
        /\ lastInstrument.uninstrumented => spansPerCall(method[p]) = 0

----------------------------------------------------------------------------
(* Claims about the batches *)

\* The spans in a sequence of spans.
Range(q) == {q[j] : j \in 1..Len(q)}

\* The number of spans in the batches bs.
RECURSIVE InBatches(_)
InBatches(bs) == IF bs = <<>> THEN 0 ELSE Len(Head(bs).spans) + InBatches(Tail(bs))

\* The spans the exporter holds: those in the queue q and in the batches bs.
Held(q, bs) == Range(q) \cup UNION {Range(bs[i].spans) : i \in 1..Len(bs)}

\* No span is held twice: not in two batches, not twice in a batch or in the
\* queue, not in a batch and in the queue.
HeldOnce(q, bs) == Len(q) + InBatches(bs) = Cardinality(Held(q, bs))

\* An export() call on an exporter that is not shut down is made in this step.
Accepting == lastExport' # lastExport /\ ~lastExport'.shut

----------------------------------------------------------------------------
(* Claims about the pricing table *)

\* The price the claimed precedence gives a key: the last update, else the
\* constructor override, else the bundled default, else none.
Precedence(key) ==
    IF key \in DOMAIN pricingLog.latest THEN Some(pricingLog.latest[key])
    ELSE IF key \in DOMAIN pricingLog.overrides THEN Some(pricingLog.overrides[key])
    ELSE IF key \in DOMAIN DEFAULT_PRICING THEN Some(DEFAULT_PRICING[key])
    ELSE Null

\* C23: get(provider, model) returns the price of the key
\* "{provider}/{model}" that update() set last, else the constructor's
\* override, else the bundled default, else null, so that an update changes
\* the price of its own key only; and a computeCost call made against the
\* present table charges that price.
C23_LookupPrecedence ==
    /\ \A provider \in PricingProviders, model \in ModelNames :
          get(table, provider, model) = Precedence(provider \o "/" \o model)
    /\ (/\ costCall.made
        /\ costCall.table = table
        /\ costCall.inputTokens # Null
        /\ costCall.outputTokens # Null)
          => costCall.result.totalCost
                = IF Precedence(CallKey) = Null THEN Null
                  ELSE Some(Precedence(CallKey)[1].inputCostPerToken * costCall.inputTokens[1]
                            + Precedence(CallKey)[1].outputCostPerToken
                                 * costCall.outputTokens[1])

\* Two updates of a key that the constructor had overridden, then a
\* computeCost call for it, which charges the price of the second update;
\* the other overridden key keeps the override.
C23_Witness ==
    /\ costCall.updates = 2
    /\ pricingLog.overrides # <<>>
    /\ DOMAIN pricingLog.latest = {"openai/gpt-4o"}
    /\ pricingLog.latest["openai/gpt-4o"].outputCostPerToken = 2000
    /\ get(table, "custom", "model-1") = Some(pricingLog.overrides["custom/model-1"])
    /\ get(table, "openai", "unknown") = Null
    /\ costCall.made
    /\ costCall.table = table
    /\ CallKey = "openai/gpt-4o"
    /\ costCall.inputTokens = Some(1)
    /\ costCall.outputTokens = Some(2)
    /\ costCall.result.totalCost = Some(5000)

----------------------------------------------------------------------------
(* Claims about the collector *)

\* The rows of the spans table with a span id.
RowsOf(id) == {i \in 1..Len(rows) : rows[i].span_id = id}

\* Every accepted record has been enqueued and written, or dropped by the
\* writer; none was lost to overflow.
Quiescent ==
    /\ \A h \in Handlers : handlers[h] = <<>>
    /\ buffer = <<>>
    /\ writer.pc = "idle"
    /\ overflow = 0

\* C24: ingest is not idempotent: once the writer has caught up, a span has
\* one row for each time a request carrying it was accepted, so that a
\* batch POSTed twice has two rows for each of its span ids.
C24_IngestNotIdempotent ==
    Quiescent => \A id \in 1..MaxRecords : Cardinality(RowsOf(id)) = posts.times[id]

\* The sum of a column over the rows with the given indices, nulls skipped.
RECURSIVE SumOf(_, _)
SumOf(I, column) ==
    IF I = {} THEN 0
    ELSE LET i == CHOOSE i \in I : TRUE
         IN  (IF rows[i][column] = Null THEN 0 ELSE rows[i][column][1])
             + SumOf(I \ {i}, column)

\* The same sum as SQL gives it: null when every value is null.
SqlSumOf(I, column) ==
    IF \A i \in I : rows[i][column] = Null THEN Null ELSE Some(SumOf(I, column))

\* What a view of the given bucket width is to hold for the present table.
ExcludesNullCost(view, width) ==
    LET costed == {i \in 1..Len(rows) : rows[i].cost_total # Null}
        members(g) == {i \in costed : groupOf(rows[i], width) = g}
    IN  /\ \A i \in costed : \E a \in view : a.group = groupOf(rows[i], width)
        /\ \A a, b \in view : a.group = b.group => a = b
        /\ \A a \in view :
              /\ members(a.group) # {}
              /\ a.span_count = Cardinality(members(a.group))
              /\ a.total_cost = Some(SumOf(members(a.group), "cost_total"))
              /\ a.total_tokens_input = SqlSumOf(members(a.group), "tokens_input")
              /\ a.total_tokens_output = SqlSumOf(members(a.group), "tokens_output")

\* C25: in cost_hourly, cost_daily and cost_weekly there is one row for each
\* (bucket, pipeline_id, stage, model, provider) group that has a span with a
\* cost_total, and its total_cost, token sums and span_count are taken over
\* exactly the spans of the group whose cost_total is not null; a span
\* without cost_total adds neither a row nor a count nor a zero.
C25_AggregatesExcludeNullCost ==
    /\ ExcludesNullCost(cost_hourly(rows), HourWidth)
    /\ ExcludesNullCost(cost_daily(rows), DayWidth)
    /\ ExcludesNullCost(cost_weekly(rows), WeekWidth)

\* The table holds a span with a cost and one without in the same hour and
\* group, and a span that costs zero in another: cost_hourly has the first
\* group with one span and the zero-cost group, cost_daily two rows.
C25_Witness ==
    /\ Len(rows) = 3
    /\ \E a \in cost_hourly(rows) :
          a.group.pipeline_id = "pipe-a" /\ a.span_count = 1 /\ a.total_cost = Some(10)
    /\ \E a \in cost_hourly(rows) :
          a.group.pipeline_id = "pipe-b" /\ a.span_count = 1 /\ a.total_cost = Some(0)
    /\ Cardinality(cost_hourly(rows)) = 2
    /\ Cardinality(cost_daily(rows)) = 2
    /\ \E i \in 1..Len(rows) : rows[i].cost_total = Null

\* C26: the pipeline cost endpoint reports as total_cost the sum of the
\* non-null cost_total values of the pipeline's spans, as coverage_ratio the
\* number of spans with a cost_total over the number of spans, and is_partial
\* exactly when a span lacks cost_total, which is when coverage_ratio < 1.0;
\* for a pipeline none of whose spans has a cost_total it reports
\* total_cost 0.0, coverage_ratio 0.0 and is_partial true.
C26_PartialCoverage ==
    lastQuery.kind = "pipeline" =>
        LET r == lastQuery.response
            spans == {i \in 1..Len(rows) : rows[i].pipeline_id = lastQuery.pipeline_id}
            costed == {i \in spans : rows[i].cost_total # Null}
        IN  /\ r.found <=> spans # {}
            /\ r.found =>
                  /\ r.total_cost = SumOf(costed, "cost_total")
                  /\ r.coverage_ratio = [num |-> Cardinality(costed),
                                         den |-> Cardinality(spans)]
                  /\ r.is_partial <=> (\E i \in spans : rows[i].cost_total = Null)
                  /\ r.is_partial <=> r.coverage_ratio.num < r.coverage_ratio.den
                  /\ costed = {} => (/\ r.total_cost = 0
                                     /\ r.coverage_ratio.num = 0
                                     /\ r.is_partial)

\* pipe-a was queried while its only span had no cost_total.
C26_Witness ==
    /\ lastQuery.kind = "pipeline"
    /\ lastQuery.pipeline_id = "pipe-a"
    /\ rows = <<Record(3), Record(2)>>
    /\ lastQuery.response = [found |-> TRUE, total_cost |-> 0,
                             coverage_ratio |-> [num |-> 0, den |-> 1],
                             is_partial |-> TRUE]

\* The step is an enqueue by handler h.
Enqueues(h) == handlers[h] # <<>> /\ handlers'[h] = Tail(handlers[h])

\* What the claim says of one enqueue: never refused, the buffer stays within
\* its capacity and in FIFO order, and a full buffer loses its head and counts
\* one overflow.
DropsOldest(h) ==
    /\ Len(buffer') <= buffer_max_size
    /\ IF Len(buffer) >= buffer_max_size
       THEN /\ buffer' = Append(Tail(buffer), Head(handlers[h]))
            /\ overflow' = overflow + 1
       ELSE /\ buffer' = Append(buffer, Head(handlers[h]))
            /\ overflow' = overflow

\* The step is the second of two enqueues that were in progress at once.
RaceEnds == race.on /\ \A g \in Handlers : handlers'[g] = <<>>

\* C27 (as claimed): every enqueue is accepted and drops the oldest record
\* of a full buffer, counting one overflow; and with capacity 1 two
\* concurrent enqueues leave exactly one record in the buffer and the
\* overflow counter higher by exactly 1, in every interleaving.
C27_WriteBuffer ==
    [][\A h \in Handlers :
          Enqueues(h) =>
             /\ DropsOldest(h)
             /\ (RaceEnds /\ buffer_max_size = 1)
                   => (Len(buffer') = 1 /\ overflow' = race.overflow + 1)]_vars

\* C27 (amended): every enqueue is accepted and drops the oldest record of a
\* full buffer, counting one overflow; and with capacity 1 two concurrent
\* enqueues into an empty buffer, with the writer neither draining the
\* buffer nor putting a batch back between them, leave exactly one record,
\* that of the later enqueue, and the overflow counter higher by exactly 1,
\* in either order.
C27_WriteBufferFromEmpty ==
    [][\A h \in Handlers :
          Enqueues(h) =>
             /\ DropsOldest(h)
             /\ (RaceEnds /\ buffer_max_size = 1 /\ race.depth = 0 /\ ~race.drained)
                   => /\ buffer' = <<Head(handlers[h])>>
                      /\ overflow' = race.overflow + 1]_vars

\* Two concurrent enqueues into an empty buffer of capacity 1 are done: one
\* record is retained and one overflow counted.
C27_Witness ==
    /\ race.done
    /\ race.depth = 0
    /\ ~race.drained
    /\ buffer_max_size = 1
    /\ Len(buffer) = 1
    /\ overflow = race.overflow + 1

\* C28 (as claimed): the status is healthy when db_connected and
\* buffer_usage <= 0.9, degraded when db_connected is false, and unhealthy
\* when buffer_usage > 0.9, one status in every state; with the database
\* down and the buffer full it is unhealthy.
C28_HealthStatus ==
    lastQuery.kind = "health" =>
        LET above == 10 * lastQuery.depth > 9 * buffer_max_size
        IN  /\ (lastQuery.db_connected /\ ~above) => lastQuery.status = "healthy"
            /\ ~lastQuery.db_connected => lastQuery.status = "degraded"
            /\ above => lastQuery.status = "unhealthy"
            /\ (~lastQuery.db_connected /\ lastQuery.depth = buffer_max_size)
                  => lastQuery.status = "unhealthy"

\* C28 (amended): the status is unhealthy when buffer_usage > 0.9, whether
\* the database is connected or not; otherwise degraded when db_connected is
\* false and healthy when it is true.  This is one status in every state,
\* and unhealthy with the database down and the buffer full.
C28_HealthStatusUnhealthyFirst ==
    lastQuery.kind = "health" =>
        LET above == 10 * lastQuery.depth > 9 * buffer_max_size
        IN  /\ lastQuery.db_connected = db_connected /\ lastQuery.depth = Len(buffer)
            /\ above => lastQuery.status = "unhealthy"
            /\ (~above /\ ~lastQuery.db_connected) => lastQuery.status = "degraded"
            /\ (~above /\ lastQuery.db_connected) => lastQuery.status = "healthy"
            /\ (~lastQuery.db_connected /\ lastQuery.depth = buffer_max_size)
                  => lastQuery.status = "unhealthy"

\* /v1/health was asked with the database down and the buffer full.
C28_Witness ==
    /\ lastQuery.kind = "health"
    /\ ~lastQuery.db_connected
    /\ lastQuery.depth = buffer_max_size
    /\ lastQuery.status = "unhealthy"

----------------------------------------------------------------------------
(* Claims about the order in which spans leave the exporter *)

\* C32: spans leave the exporter in FIFO order.  Whenever a flush extracts a
\* batch, the batch is the longest prefix of at most batchSize spans of the
\* queue the flush found and the rest of that queue stays; the payload has one
\* resourceSpans entry with one scopeSpans entry whose spans are the batch in
\* enqueue order; and every span of every batch extracted earlier was handed
\* to export() before every span of this batch.  A step that extracts no
\* batch takes nothing from the queue.
C32_FifoOrder ==
    [][LET found == IF nextSpan' # nextSpan THEN lastExport'.enq ELSE queue
           n == Min(batchSize, Len(found))
       IN  IF Len(batches') = Len(batches) THEN queue' = found
           ELSE LET b == batches'[Len(batches')]
                IN  /\ Len(batches') = Len(batches) + 1
                    /\ b.spans = SubSeq(found, 1, n)
                    /\ queue' = SubSeq(found, n + 1, Len(found))
                    /\ Len(b.payload.resourceSpans) = 1
                    /\ Len(b.payload.resourceSpans[1].scopeSpans) = 1
                    /\ b.payload.resourceSpans[1].scopeSpans[1].spans = b.spans
                    /\ \A i, j \in 1..Len(b.spans) : i < j => b.spans[i] < b.spans[j]
                    /\ \A i \in 1..Len(batches) :
                          \A s \in Range(batches[i].spans), t \in Range(b.spans) : s < t
      ]_vars

\* An export() call extracted a batch of several spans and left spans in the
\* queue, and a later flush extracted another batch.
C32_Witness ==
    /\ Len(batches) >= 2
    /\ Len(batches[1].spans) >= 2
    /\ lastExport.flushed
    /\ lastExport.batch = 1
    /\ Len(lastExport.after) >= 1

====
